---------------------------- MODULE Spec2Model ----------------------------
(***************************************************************************)
(* A model of the watcher's chain client adapter (rpc-eth-client           *)
(* EthClient), of the fill-state command (eden-watcher fillState) and of   *)
(* the state-chain checks of the compare tooling (checkIPLDMetaData).      *)
(*                                                                         *)
(* The specifications share the module, one per subsystem:                *)
(*   SpecBlocks   EthClient.getBlocks / getFullBlocks against an upstream  *)
(*   SpecCache    EthClient._getCachedOrFetch, getLogs, getStorageAt       *)
(*   SpecFill     fillState over a block range                             *)
(*   SpecFillLate fillState on an empty database, late starting blocks     *)
(*   SpecMeta     checkIPLDMetaData fed state records in block order       *)
(*   SpecQuery    getIPLDsByBlock against an endpoint's state records      *)
(*   SpecCombine  combineIPLDState                                         *)
(*   SpecCursor   the updaters of the sync status                          *)
(*   SpecWatcher  indexing, processing, promotion, reorgs, checkpoints     *)
(*   SpecCodegen  the codegen collectors' addQuery                         *)
(* The variables of the subsystems a specification does not run keep       *)
(* their idle values.                                                      *)
(***************************************************************************)
EXTENDS Integers, Sequences, FiniteSets, TLC

(***************************************************************************)
(* Optional values: undefined / null is the empty sequence.                *)
(***************************************************************************)
None == << >>

Some(x) == << x >>

IsSome(o) == o /= << >>

Val(o) == o[1]

Range(s) == { s[i] : i \in 1..Len(s) }

RECURSIVE Flat(_)
Flat(ss) ==
    IF ss = << >> THEN << >> ELSE Head(ss) \o Flat(Tail(ss))

(***************************************************************************)
(* The state.                                                              *)
(***************************************************************************)
VARIABLES
    upHead,         \* upstream: the number of the latest block produced
    bcall,          \* the getBlocks / getFullBlocks call in progress
    cacheEnabled,   \* config.cache is set
    cache,          \* the cache: key object -> stored value
    chainLogs,      \* upstream: the logs of the block at the height asked for
    tasks,          \* per task: the call it is running
    nStarted,       \* calls started so far
    doneKeys,       \* keys for which a _getCachedOrFetch call has returned
    argv,           \* fillState: startBlock and endBlock
    config,         \* fillState: the watcher's configuration and data sources
    blockRows,      \* the block table, per height, as far as it has been read
    graphRows,      \* the entity table, per height and entity, as far as read
    states,         \* the state records, in insertion order
    syncStatus,     \* the state sync status row
    subgraph,       \* the indexer's in-memory subgraph state, per contract
    fill,           \* fillState's frame: its position and its locals
    run,            \* what fillState has done in this run, and the run's number
    contractLatestStateCIDMap,  \* per contract, the CIDs of its latest states
    chain,          \* per contract, what the parenting rule needs of its records
    nFed,           \* the number of records fed to checkIPLDMetaData
    curBlock,       \* the block of the record fed last
    metaCall,       \* the last call of checkIPLDMetaData: its input and result
    combine,        \* the last call of combineIPLDState: its input and result
    sync,           \* the sync status row
    update,         \* the last call of an updater of the sync status
    reorg,          \* the reorg handler's position and its common ancestor
    fork,           \* upstream: the block after which branch B replaces A
    localBlocks,    \* the block progress table, by block hash
    wstates,        \* the watcher's state records, in insertion order
    applied,        \* per block and event index, how often it was applied
    stagedEver,     \* the (contract, block) pairs that had a diff_staged
    cli,            \* the last create-checkpoint command and what it found
    stateRows,      \* the compared endpoint's state records, in insertion order
    ipld,           \* the last call of getIPLDsByBlock: its queries and results
    codegen,        \* codegen: the heap, the caller's visit, the collectors' queries
    queryCall       \* codegen: the last call of addQuery

blocksVars == << upHead, bcall >>

cacheVars == << cacheEnabled, cache, chainLogs, tasks, nStarted, doneKeys >>

fillVars ==
    << argv, config, blockRows, graphRows, states, syncStatus, subgraph,
       fill, run >>

metaVars == << contractLatestStateCIDMap, chain, nFed, curBlock, metaCall >>

combineVars == << combine >>

cursorVars == << sync, update, reorg >>

watcherVars == << fork, localBlocks, wstates, applied, stagedEver, cli >>

queryVars == << stateRows, ipld >>

codegenVars == << codegen, queryCall >>

restVars ==
    << combineVars, cursorVars, watcherVars, queryVars, codegenVars >>

vars == << blocksVars, cacheVars, fillVars, metaVars, restVars >>

\* What the actions of one subsystem leave alone.
notBlocks == << cacheVars, fillVars, metaVars, restVars >>

notCache == << blocksVars, fillVars, metaVars, restVars >>

notFill == << blocksVars, cacheVars, metaVars, restVars >>

notMeta == << blocksVars, cacheVars, fillVars, restVars >>

firstVars ==
    << blocksVars, cacheVars, fillVars, metaVars, queryVars, codegenVars >>

notCombine == << firstVars, cursorVars, watcherVars >>

notCursor == << firstVars, combineVars, watcherVars >>

notWatcher == << firstVars, combineVars >>

notQuery ==
    << blocksVars, cacheVars, fillVars, metaVars, combineVars, cursorVars,
       watcherVars, codegenVars >>

notCodegen ==
    << blocksVars, cacheVars, fillVars, metaVars, combineVars, cursorVars,
       watcherVars, queryVars >>

(***************************************************************************)
(* Number <-> string conversions used by the client.                       *)
(***************************************************************************)
HexDigits == << "0", "1", "2", "3", "4", "5", "6", "7",
                "8", "9", "a", "b", "c", "d", "e", "f" >>

RECURSIVE HexStr(_)
HexStr(n) ==
    IF n < 16 THEN HexDigits[n + 1]
    ELSE HexStr(n \div 16) \o HexDigits[(n % 16) + 1]

RECURSIVE DecStr(_)
DecStr(n) ==
    IF n < 10 THEN HexDigits[n + 1]
    ELSE DecStr(n \div 10) \o HexDigits[(n % 10) + 1]

\* utils.hexValue(n): "0x" and the hex digits without leading zeros.
HexValue(n) == "0x" \o HexStr(n)

\* The largest block number the upstream chain reaches.
MaxHead == 2

\* Block numbers a caller may ask for (MaxHead + 1 is beyond the head).
AskNumbers == 0..(MaxHead + 1)

\* The upstream node's reading of a hex quantity.
HexToNum(s) == CHOOSE n \in 0..(MaxHead + 16) : HexValue(n) = s

(***************************************************************************)
(* The upstream chain as seen through JSON-RPC eth_getBlockBy*.            *)
(***************************************************************************)
BlockHashAt(n) == "0xh" \o DecStr(n)

UnknownHash == "0xh9"

RawBlock(n) ==
    [ number |-> HexValue(n),
      hash |-> BlockHashAt(n),
      parentHash |-> BlockHashAt(n - 1),
      timestamp |-> HexValue(n + 10),
      stateRoot |-> "0xsr" \o DecStr(n),
      totalDifficulty |-> HexValue(n + 3),
      transactionsRoot |-> "0xtx" \o DecStr(n),
      receiptsRoot |-> "0xrc" \o DecStr(n),
      sha3Uncles |-> "0xun" \o DecStr(n) ]

FUTURE_EPOCH_MSG == "requested a future epoch (beyond 'latest')"

\* An upstream failure as ethers raises it: code, and the nested error's
\* message when there is a nested error.
RpcError(code, nested) == [ kind |-> "error", code |-> code, nested |-> nested ]

FutureEpochError == RpcError("SERVER_ERROR", Some(FUTURE_EPOCH_MSG))

OtherErrors ==
    { RpcError("SERVER_ERROR", Some("internal error")),
      RpcError("SERVER_ERROR", None),
      RpcError("TIMEOUT", None),
      RpcError("NETWORK_ERROR", Some(FUTURE_EPOCH_MSG)) }

RpcBlock(n) == [ kind |-> "block", raw |-> RawBlock(n) ]

RpcNull == [ kind |-> "null" ]

\* What upstream may answer to rpc = [method, arg] with its head at `head`:
\* the block when it has it; null or the future-epoch server error when it
\* has not produced it; any other failure at any time.
UpstreamAnswers(rpc, head) ==
    LET has ==
            IF rpc.method = "eth_getBlockByHash"
            THEN { n \in 1..head : BlockHashAt(n) = rpc.arg }
            ELSE { n \in 1..head : n = HexToNum(rpc.arg) }
    IN  (IF has /= {} THEN { RpcBlock(n) : n \in has }
         ELSE { RpcNull, FutureEpochError })
        \cup OtherErrors

BIdle == [ pc |-> "idle" ]

\* A catch clause that looks at the message only.
IsFutureEpoch_MessageOnly(err) ==
    /\ IsSome(err.nested)
    /\ Val(err.nested) = FUTURE_EPOCH_MSG

\* eth-client.ts:123, the catch clause of getBlocks: the error is ignored
\* when it is the future-block server error.
IsFutureEpoch(err) ==
    /\ err.code = "SERVER_ERROR"
    /\ IsSome(err.nested)
    /\ Val(err.nested) = FUTURE_EPOCH_MSG

\* eth-client.ts:108-119, the node getBlocks builds from a raw block.
BlockNode(raw) ==
    [ blockNumber |-> DecStr(HexToNum(raw.number)),
      blockHash |-> raw.hash,
      parentHash |-> raw.parentHash,
      timestamp |-> DecStr(HexToNum(raw.timestamp) ),
      stateRoot |-> raw.stateRoot,
      td |-> DecStr(HexToNum(raw.totalDifficulty)),
      txRoot |-> raw.transactionsRoot,
      receiptRoot |-> raw.receiptsRoot ]

\* eth-client.ts:172-190, the node getFullBlocks builds (header RLP left out).
FullBlockNode(raw) ==
    [ blockNumber |-> DecStr(HexToNum(raw.number)),
      blockHash |-> raw.hash,
      parentHash |-> raw.parentHash,
      timestamp |-> DecStr(HexToNum(raw.timestamp)),
      stateRoot |-> raw.stateRoot,
      td |-> DecStr(HexToNum(raw.totalDifficulty)),
      txRoot |-> raw.transactionsRoot,
      receiptRoot |-> raw.receiptsRoot,
      uncleRoot |-> raw.sha3Uncles ]

\* A client that prefers the block number to the block hash.
BlockHashOrNumber_NumberFirst(blockNumber, blockHash) ==
    LET blockNumberHex ==
            IF IsSome(blockNumber) /\ Val(blockNumber) /= 0
            THEN Some(HexValue(Val(blockNumber))) ELSE None
    IN  IF IsSome(blockNumberHex) THEN blockNumberHex ELSE blockHash

\* eth-client.ts:93-95 / 138-140: blockNumber ? hexValue(blockNumber) :
\* undefined, then blockHash ?? blockNumberHex.
BlockHashOrNumber(blockNumber, blockHash) ==
    LET blockNumberHex ==
            IF IsSome(blockNumber) /\ Val(blockNumber) /= 0
            THEN Some(HexValue(Val(blockNumber))) ELSE None
    IN  IF IsSome(blockHash) THEN blockHash ELSE blockNumberHex

\* JavaScript truthiness of an optional string.
Truthy(o) == IsSome(o) /\ Val(o) /= ""

\* getBlocks / getFullBlocks up to the await of provider.send: the assertion
\* fails before any upstream call, or the request is sent.
BlocksCall(method, blockNumber, blockHash) ==
    /\ bcall.pc = "idle"
    /\ LET arg == BlockHashOrNumber(blockNumber, blockHash)
       IN  bcall' =
             IF ~Truthy(arg)
             THEN [ pc |-> "done", method |-> method,
                    blockNumber |-> blockNumber, blockHash |-> blockHash,
                    sent |-> None, resp |-> None,
                    outcome |-> "assertion_error", nodes |-> << >>,
                    thrown |-> None ]
             ELSE [ pc |-> "awaiting", method |-> method,
                    blockNumber |-> blockNumber, blockHash |-> blockHash,
                    sent |-> Some([ method |-> IF Truthy(blockHash)
                                               THEN "eth_getBlockByHash"
                                               ELSE "eth_getBlockByNumber",
                                    arg |-> Val(arg) ]),
                    resp |-> None,
                    outcome |-> "pending", nodes |-> << >>,
                    thrown |-> None ]
    /\ UNCHANGED << upHead, notBlocks >>

\* A getBlocks whose catch clause rethrows every error.
GetBlocksResult_Rethrow(resp) ==
    CASE resp.kind = "block" ->
            [ outcome |-> "returned", nodes |-> << BlockNode(resp.raw) >>,
              thrown |-> None ]
      [] resp.kind = "null" ->
            [ outcome |-> "returned", nodes |-> << >>, thrown |-> None ]
      [] OTHER ->
            [ outcome |-> "thrown", nodes |-> << >>, thrown |-> Some(resp) ]

\* eth-client.ts:99-134: what getBlocks does with the upstream answer.
GetBlocksResult(resp) ==
    CASE resp.kind = "block" ->
            [ outcome |-> "returned", nodes |-> << BlockNode(resp.raw) >>,
              thrown |-> None ]
      [] resp.kind = "null" ->
            [ outcome |-> "returned", nodes |-> << >>, thrown |-> None ]
      [] OTHER ->
            IF IsFutureEpoch(resp)
            THEN [ outcome |-> "returned", nodes |-> << >>, thrown |-> None ]
            ELSE [ outcome |-> "thrown", nodes |-> << >>,
                   thrown |-> Some(resp) ]

\* eth-client.ts:143-192: getFullBlocks has no try/catch and reads the
\* fields of rawBlock unguarded.
GetFullBlocksResult(resp) ==
    CASE resp.kind = "block" ->
            [ outcome |-> "returned", nodes |-> << FullBlockNode(resp.raw) >>,
              thrown |-> None ]
      [] resp.kind = "null" ->
            [ outcome |-> "thrown", nodes |-> << >>,
              thrown |-> Some(RpcError("TypeError", None)) ]
      [] OTHER ->
            [ outcome |-> "thrown", nodes |-> << >>, thrown |-> Some(resp) ]

\* provider.send settles: upstream answers the pending request.
UpstreamAnswer ==
    /\ bcall.pc = "awaiting"
    /\ \E resp \in UpstreamAnswers(Val(bcall.sent), upHead) :
         bcall' = [ bcall EXCEPT !.pc = "answered", !.resp = Some(resp) ]
    /\ UNCHANGED << upHead, notBlocks >>

\* The continuation after the await: the call returns or throws.
BlocksReturn ==
    /\ bcall.pc = "answered"
    /\ LET r == IF bcall.method = "getBlocks"
                THEN GetBlocksResult(Val(bcall.resp))
                ELSE GetFullBlocksResult(Val(bcall.resp))
       IN  bcall' = [ bcall EXCEPT !.pc = "done", !.outcome = r.outcome,
                                   !.nodes = r.nodes, !.thrown = r.thrown ]
    /\ UNCHANGED << upHead, notBlocks >>

\* The caller is done with the result; the client is ready for another call.
BlocksReset ==
    /\ bcall.pc = "done"
    /\ bcall' = BIdle
    /\ UNCHANGED << upHead, notBlocks >>

\* Upstream produces a block.
UpstreamAdvance ==
    /\ upHead < MaxHead
    /\ upHead' = upHead + 1
    /\ UNCHANGED << bcall, notBlocks >>

AskHashes == { None, Some(""), Some(UnknownHash) } \cup { Some(BlockHashAt(n)) : n \in 1..MaxHead }

BlocksInit ==
    /\ upHead = 1
    /\ bcall = BIdle

BlocksNext ==
    \/ \E m \in { "getBlocks", "getFullBlocks" },
          bn \in { None } \cup { Some(n) : n \in AskNumbers },
          bh \in AskHashes : BlocksCall(m, bn, bh)
    \/ UpstreamAnswer
    \/ BlocksReturn
    \/ BlocksReset
    \/ UpstreamAdvance

(***************************************************************************)
(* EthClient._getCachedOrFetch with its two callers, getStorageAt and      *)
(* getLogs, run by concurrent tasks over one cache and one upstream.       *)
(***************************************************************************)
\* Bytes of a storage key after padKey.
SLOT_BYTES == 32

\* Calls started in one behaviour.
MaxCalls == 2

Tasks == { "t1", "t2" }

\* Addresses: the checksum (mixed-case) form and the lower-case form.
ToLowerCase(a) ==
    CASE a = "0xAA" -> "0xaa"
      [] a = "0xBB" -> "0xbb"
      [] a = "0xCC" -> "0xcc"
      [] OTHER -> a

\* Logs of the upstream chain; ethers reports a log's address in checksum form.
LogA == [ address |-> "0xAA", transactionHash |-> "0xt1", logIndex |-> 0 ]

LogC == [ address |-> "0xCC", transactionHash |-> "0xt2", logIndex |-> 1 ]

\* What a block at the one height of interest may hold.
LogOptions == { << >>, << LogC >>, << LogA, LogC >> }

LogHeights == { "1" }

\* Number(blockNumber) for the decimal strings the callers pass.
StrToNum(s) == CHOOSE n \in 0..(MaxHead + 16) : DecStr(n) = s

LogHashes == { "0xh1", "0xh1b" }

LogAddressLists ==
    { None, Some(<< "0xaa" >>), Some(<< "0xBB", "0xaa" >>) }

\* Storage slots as the hex digits after "0x".
SlotInputs == { << "1" >>, << "0", "1" >>, << "2" >> }

RECURSIVE Concat(_)
Concat(digits) ==
    IF digits = << >> THEN "" ELSE Head(digits) \o Concat(Tail(digits))

RECURSIVE Zeros(_)
Zeros(n) == IF n <= 0 THEN << >> ELSE << "0" >> \o Zeros(n - 1)

\* padKey of ipld-eth-client: the digits left-padded with zeros to 32 bytes.
PadKey(digits) == Zeros(2 * SLOT_BYTES - Len(digits)) \o digits

\* interface Vars (eth-client.ts:18-24); every field is optional.
NoVars ==
    [ blockHash |-> None, blockNumber |-> None, contract |-> None,
      slot |-> None, addresses |-> None ]

StorageVars_Unpadded(blockHash, contract, slot) ==
    [ NoVars EXCEPT !.blockHash = Some(blockHash),
                    !.contract = Some(contract),
                    !.slot = Some("0x" \o Concat(slot)) ]

\* eth-client.ts:39-44, the vars getStorageAt passes on.
StorageVars(blockHash, contract, slot) ==
    [ NoVars EXCEPT !.blockHash = Some(blockHash),
                    !.contract = Some(contract),
                    !.slot = Some("0x" \o Concat(PadKey(slot))) ]

\* A getLogs whose key leaves the block hash out.
LogVars_NoHash(blockHash, blockNumber, addresses) ==
    [ NoVars EXCEPT !.blockNumber = Some(blockNumber),
                    !.addresses = addresses ]

\* eth-client.ts:233-239, getLogs passes its argument on as it got it.
LogVars(blockHash, blockNumber, addresses) ==
    [ NoVars EXCEPT !.blockHash = Some(blockHash),
                    !.blockNumber = Some(blockNumber),
                    !.addresses = addresses ]

\* eth-client.ts:294-297, keyObj.
KeyObj(queryName, v) == [ queryName |-> queryName, vars |-> v ]

\* Upstream eth_getStorageAt: the storage of a block never changes.
UpstreamStorage(contract, slot, blockHash) ==
    IF slot = "0x" \o Concat(PadKey(<< "1" >>)) THEN "0x07" ELSE "0x00"

\* Upstream eth_getLogs for one block number, with or without an address.
UpstreamLogs(logs, address) ==
    IF IsSome(address)
    THEN SelectSeq(logs, LAMBDA l :
             ToLowerCase(l.address) = ToLowerCase(Val(address)))
    ELSE logs

\* Upstream eth_getTransactionReceipt: the status of a transaction.
ReceiptStatus(txHash) == IF txHash = "0xt1" THEN 1 ELSE 0

\* eth-client.ts:240-261, the fetch of getLogs on a chain holding `logs` at
\* the block number asked for.
GetLogsFetch(v, logs) ==
    LET addresses == IF IsSome(v.addresses) THEN Val(v.addresses) ELSE << >>
        logsByAddress ==
            [ i \in 1..Len(addresses) |-> UpstreamLogs(logs, Some(addresses[i])) ]
        flat == Flat(logsByAddress)
        all == IF Len(flat) = 0 THEN UpstreamLogs(logs, None) ELSE flat
    IN  [ i \in 1..Len(all) |->
            [ all[i] EXCEPT !.address = ToLowerCase(all[i].address) ] ]

\* eth-client.ts:264-290, what getLogs returns for the fetched or cached logs.
GetLogsOutput(result) ==
    [ i \in 1..Len(result) |->
        [ account |-> result[i].address,
          transaction |-> result[i].transactionHash,
          index |-> result[i].logIndex,
          status |-> ReceiptStatus(result[i].transactionHash) ] ]

\* eth-client.ts:52-59, what getStorageAt returns.
GetStorageAtOutput(value) == [ value |-> value, proof |-> "null" ]

\* What the caller of _getCachedOrFetch returns for its result. (The receipts
\* getLogs awaits first change nothing here: a transaction's status is fixed.)
MethodOutput(method, result) ==
    IF method = "getStorageAt" THEN GetStorageAtOutput(result)
    ELSE GetLogsOutput(result)

TIdle == [ pc |-> "idle" ]

\* Cache.get of @cerc-io/cache: [value, found].
CacheGet(c, key) ==
    IF key \in DOMAIN c THEN [ found |-> TRUE, value |-> Some(c[key]) ]
    ELSE [ found |-> FALSE, value |-> None ]

\* Cache.put of @cerc-io/cache.
CachePut(c, key, value) ==
    [ k \in DOMAIN c \cup { key } |-> IF k = key THEN value ELSE c[k] ]

\* A _getCachedOrFetch that never looks into the cache.
FirstStep_NoLookup(enabled) == "fetch"

\* Where _getCachedOrFetch starts (eth-client.ts:300): the cache lookup when
\* a cache is configured, the fetch otherwise.
FirstStep(enabled) == IF enabled THEN "get" ELSE "fetch"

\* A _getCachedOrFetch that returns the fetched result without storing it.
StepAfterFetch_NoStore(enabled) == "done"

\* Where _getCachedOrFetch goes after the fetch (eth-client.ts:311).
StepAfterFetch(enabled) == IF enabled THEN "put" ELSE "done"

NewCall(method, input, v) ==
    [ pc |-> FirstStep(cacheEnabled), method |-> method, input |-> input,
      key |-> KeyObj(method, v),
      hit |-> FALSE, nFetch |-> 0, upstream |-> << >>,
      afterDone |-> KeyObj(method, v) \in doneKeys,
      result |-> None, out |-> None ]

\* eth-client.ts:38-44: getStorageAt pads the slot and enters _getCachedOrFetch.
GetStorageAtCall(t, blockHash, contract, slot) ==
    /\ tasks[t].pc = "idle"
    /\ nStarted < MaxCalls
    /\ tasks' = [ tasks EXCEPT ![t] =
                    NewCall("getStorageAt",
                            [ blockHash |-> blockHash, contract |-> contract,
                              slot |-> slot ],
                            StorageVars(blockHash, contract, slot)) ]
    /\ nStarted' = nStarted + 1
    /\ UNCHANGED << cacheEnabled, cache, chainLogs, doneKeys, notCache >>

\* eth-client.ts:233-239: getLogs enters _getCachedOrFetch.
GetLogsCall(t, blockHash, blockNumber, addresses) ==
    /\ tasks[t].pc = "idle"
    /\ nStarted < MaxCalls
    /\ tasks' = [ tasks EXCEPT ![t] =
                    NewCall("getLogs",
                            [ blockHash |-> blockHash,
                              blockNumber |-> blockNumber,
                              addresses |-> addresses ],
                            LogVars(blockHash, blockNumber, addresses)) ]
    /\ nStarted' = nStarted + 1
    /\ UNCHANGED << cacheEnabled, cache, chainLogs, doneKeys, notCache >>

\* eth-client.ts:300-305: the cache lookup settles.
CacheLookup(t) ==
    /\ tasks[t].pc = "get"
    /\ LET got == CacheGet(cache, tasks[t].key)
       IN  tasks' = [ tasks EXCEPT ![t] =
                        IF got.found
                        THEN [ @ EXCEPT !.pc = "done", !.hit = TRUE,
                                        !.result = got.value,
                                        !.out = Some(MethodOutput(tasks[t].method,
                                                                  Val(got.value))) ]
                        ELSE [ @ EXCEPT !.pc = "fetch" ] ]
    /\ doneKeys' = IF CacheGet(cache, tasks[t].key).found
                   THEN doneKeys \cup { tasks[t].key } ELSE doneKeys
    /\ UNCHANGED << cacheEnabled, cache, chainLogs, nStarted, notCache >>

\* The value the call's fetch function gets from upstream now.
FetchValue(call) ==
    IF call.method = "getStorageAt"
    THEN UpstreamStorage(Val(call.key.vars.contract), Val(call.key.vars.slot),
                         Val(call.key.vars.blockHash))
    ELSE GetLogsFetch(call.key.vars, chainLogs)

\* The upstream queries the call's fetch function issues.
FetchQueries(call) ==
    IF call.method = "getStorageAt"
    THEN << [ rpc |-> "eth_getStorageAt",
              arg |-> Val(call.key.vars.slot) ] >>
    ELSE << [ rpc |-> "eth_getLogs",
              arg |-> DecStr(StrToNum(Val(call.key.vars.blockNumber))) ] >>

\* eth-client.ts:308: the fetch settles with upstream's answer.
Fetch(t) ==
    /\ tasks[t].pc = "fetch"
    /\ tasks' = [ tasks EXCEPT ![t] =
                    [ @ EXCEPT !.pc = StepAfterFetch(cacheEnabled),
                               !.nFetch = @ + 1,
                               !.upstream = FetchQueries(tasks[t]),
                               !.result = Some(FetchValue(tasks[t])),
                               !.out = IF cacheEnabled THEN None
                                       ELSE Some(MethodOutput(tasks[t].method,
                                                              FetchValue(tasks[t]))) ] ]
    /\ doneKeys' = IF cacheEnabled THEN doneKeys
                   ELSE doneKeys \cup { tasks[t].key }
    /\ UNCHANGED << cacheEnabled, cache, chainLogs, nStarted, notCache >>

\* eth-client.ts:308: the fetch rejects; the error leaves _getCachedOrFetch
\* and its caller, and nothing is stored.
FetchFail(t) ==
    /\ tasks[t].pc = "fetch"
    /\ tasks' = [ tasks EXCEPT ![t] =
                    [ @ EXCEPT !.pc = "failed", !.nFetch = @ + 1,
                               !.upstream = FetchQueries(tasks[t]) ] ]
    /\ UNCHANGED << cacheEnabled, cache, chainLogs, nStarted, doneKeys, notCache >>

\* eth-client.ts:311-315: the result is stored and returned.
CacheStore(t) ==
    /\ tasks[t].pc = "put"
    /\ cache' = CachePut(cache, tasks[t].key, Val(tasks[t].result))
    /\ tasks' = [ tasks EXCEPT ![t] =
                    [ @ EXCEPT !.pc = "done",
                               !.out = Some(MethodOutput(tasks[t].method,
                                                         Val(tasks[t].result))) ] ]
    /\ doneKeys' = doneKeys \cup { tasks[t].key }
    /\ UNCHANGED << cacheEnabled, chainLogs, nStarted, notCache >>

\* The task is free for its next call.
TaskReset(t) ==
    /\ tasks[t].pc \in { "done", "failed" }
    /\ tasks' = [ tasks EXCEPT ![t] = TIdle ]
    /\ UNCHANGED << cacheEnabled, cache, chainLogs, nStarted, doneKeys, notCache >>

\* Upstream replaces the block at the height of interest (a reorg).
UpstreamReorg ==
    /\ \E logs \in LogOptions \ { chainLogs } : chainLogs' = logs
    /\ UNCHANGED << cacheEnabled, cache, tasks, nStarted, doneKeys, notCache >>

CacheInit ==
    /\ cacheEnabled \in BOOLEAN
    /\ cache = << >>
    /\ chainLogs \in LogOptions
    /\ tasks = [ t \in Tasks |-> TIdle ]
    /\ nStarted = 0
    /\ doneKeys = {}

CacheNext ==
    \/ \E t \in Tasks, s \in SlotInputs : GetStorageAtCall(t, "0xh1", "0xAA", s)
    \/ \E t \in Tasks, h \in LogHashes, n \in LogHeights, a \in LogAddressLists :
         GetLogsCall(t, h, n, a)
    \/ \E t \in Tasks : CacheLookup(t)
    \/ \E t \in Tasks : Fetch(t)
    \/ \E t \in Tasks : FetchFail(t)
    \/ \E t \in Tasks : CacheStore(t)
    \/ \E t \in Tasks : TaskReset(t)
    \/ UpstreamReorg

(***************************************************************************)
(* fill-state (packages/eden-watcher/src/fill-state.ts).                   *)
(*                                                                         *)
(* fillState reads and writes the watcher's database through the Indexer   *)
(* and the graph database.  Their classes are not part of the sources at   *)
(* hand; the operators that stand for them follow the design notes: an     *)
(* init once per contract at its starting block, a diff per contract whose *)
(* in-memory state is not empty, a checkpoint at the configured cadence,   *)
(* latest state by block number and then by insertion, status rows that    *)
(* only advance.                                                           *)
(***************************************************************************)
MaxHeight == 2

MaxRuns == 2

Heights == 1..MaxHeight

CA == "0xc1"

CB == "0xc2"

Entities == { "E1", "E2", "E3" }

\* The two sets of data sources of the subgraph: one source per contract,
\* and two sources naming the same contract.
DataSourceLists ==
    { << [ address |-> CA, entities |-> << "E1", "E2" >> ],
         [ address |-> CB, entities |-> << "E3" >> ] >>,
      << [ address |-> CA, entities |-> << "E1" >> ],
         [ address |-> CA, entities |-> << "E2" >> ] >> }

CheckpointIntervals == { 1, 2 }

\* The watched contracts, each with the block it is watched from.
Watched(startingA, startingB) ==
    << [ address |-> CA, startingBlock |-> startingA ],
       [ address |-> CB, startingBlock |-> startingB ] >>

\* The blocks a height can hold: its canonical block alone, the canonical
\* block and a pruned sibling, a pruned block only, two non-pruned blocks.
Shapes == { "one", "onePruned", "none", "two" }

HashA(n) == "0xa" \o DecStr(n)

HashB(n) == "0xb" \o DecStr(n)

BlockRow(hash, n, pruned) ==
    [ blockHash |-> hash, blockNumber |-> n, isPruned |-> pruned ]

RowsOf(shape, n) ==
    CASE shape = "one" -> << BlockRow(HashA(n), n, FALSE) >>
      [] shape = "onePruned" ->
            << BlockRow(HashB(n), n, TRUE), BlockRow(HashA(n), n, FALSE) >>
      [] shape = "none" -> << BlockRow(HashB(n), n, TRUE) >>
      [] shape = "two" ->
            << BlockRow(HashA(n), n, FALSE), BlockRow(HashB(n), n, FALSE) >>
      [] OTHER -> << >>

\* getBlocksAtHeight(height, isPruned)
GetBlocksAtHeight(rows, height, isPruned) ==
    SelectSeq(RowsOf(rows[height], height),
              LAMBDA b : b.blockNumber = height /\ b.isPruned = isPruned)

HeightOfHash(hash) == CHOOSE n \in 1..(MaxHeight + 1) : hash \in { HashA(n), HashB(n) }

\* graphDb.getEntitiesForBlock(blockHash, entity): the ids of the entities
\* of that type updated at the block.  The entity tables considered: any
\* block may or may not update E1, by two entities, and E2, by one; E3 is
\* updated at the even heights.
UpdateLists(entity, height) ==
    CASE entity = "E1" -> { << >>, << "a", "b" >> }
      [] entity = "E2" -> { << >>, << "a" >> }
      [] OTHER -> IF height % 2 = 0 THEN { << "a" >> } ELSE { << >> }

AllUpdateLists == { << >>, << "a" >>, << "a", "b" >> }

\* prepareEntityState(updatedEntity, entityName, relationsMap)
PrepareEntityState(updatedEntity, entityName) ==
    [ entity |-> entityName, id |-> updatedEntity ]

Cid(kind, contract, blockHash) == kind \o ":" \o contract \o "@" \o blockHash

StateRecord(kind, contract, blockHash, parent, data) ==
    [ kind |-> kind, contractAddress |-> contract, blockHash |-> blockHash,
      blockNumber |-> HeightOfHash(blockHash),
      cid |-> Cid(kind, contract, blockHash), parent |-> parent,
      data |-> data ]

\* getIPLDBlocks({ block: { blockNumber: Between(from, to) } })
GetIPLDBlocksBetween(recs, from, to) ==
    SelectSeq(recs, LAMBDA r : from <= r.blockNumber /\ r.blockNumber <= to)

\* getIPLDBlocksByHash(blockHash)
GetIPLDBlocksByHash(recs, blockHash) ==
    SelectSeq(recs, LAMBDA r : r.blockHash = blockHash)

\* The index of the latest record of a contract among the given kinds: the
\* highest block number, then the latest insertion; 0 when there is none.
LatestIndex(recs, contract, kinds) ==
    LET idx == { i \in 1..Len(recs) : /\ recs[i].contractAddress = contract
                                      /\ recs[i].kind \in kinds }
    IN IF idx = {} THEN 0
       ELSE CHOOSE i \in idx : \A j \in idx :
              \/ recs[j].blockNumber < recs[i].blockNumber
              \/ recs[j].blockNumber = recs[i].blockNumber /\ j <= i

AllKinds == { "init", "diff", "checkpoint" }

\* The parent of a new diff: the latest init or diff, unless a checkpoint
\* was created after it in the same block.
DiffParent(recs, contract) ==
    LET d == LatestIndex(recs, contract, { "init", "diff" })
        k == LatestIndex(recs, contract, { "checkpoint" })
    IN IF d = 0 THEN None
       ELSE IF k /= 0 /\ recs[k].blockNumber = recs[d].blockNumber /\ k > d
            THEN Some(recs[k].cid)
            ELSE Some(recs[d].cid)

\* The parent of a new checkpoint: the latest record of the contract.
CheckpointParent(recs, contract) ==
    LET l == LatestIndex(recs, contract, AllKinds)
    IN IF l = 0 THEN None ELSE Some(recs[l].cid)

IsWatchedFrom(watched, contract, blockNumber) ==
    \E i \in 1..Len(watched) : /\ watched[i].address = contract
                               /\ watched[i].startingBlock <= blockNumber

\* createInit(blockHash, blockNumber): an init record, without a parent,
\* for every watched contract that starts at this block and has none.
RECURSIVE CreateInitFrom(_, _, _, _, _)
CreateInitFrom(recs, watched, i, blockHash, blockNumber) ==
    IF i > Len(watched) THEN recs
    ELSE LET c == watched[i]
             due == /\ c.startingBlock = blockNumber
                    /\ LatestIndex(recs, c.address, { "init" }) = 0
             next == IF due
                     THEN Append(recs, StateRecord("init", c.address,
                                                   blockHash, None, << >>))
                     ELSE recs
         IN CreateInitFrom(next, watched, i + 1, blockHash, blockNumber)

CreateInit(recs, watched, blockHash, blockNumber) ==
    CreateInitFrom(recs, watched, 1, blockHash, blockNumber)

\* updateSubgraphState(contractAddress, data): the data is merged into the
\* contract's entry of the in-memory map, a new contract getting the last
\* place of the map.
UpdateSubgraphState(mem, contract, data) ==
    IF \E i \in 1..Len(mem) : mem[i].address = contract
    THEN [ i \in 1..Len(mem) |->
             IF mem[i].address = contract
             THEN [ mem[i] EXCEPT !.data = Append(@, data) ]
             ELSE mem[i] ]
    ELSE Append(mem, [ address |-> contract, data |-> << data >> ])

\* dumpSubgraphState(blockHash, isStateFinalized = true): a diff record for
\* every contract of the in-memory map, watched at this block, whose state
\* is not empty; the map is emptied.
RECURSIVE DumpFrom(_, _, _, _, _)
DumpFrom(recs, watched, mem, i, blockHash) ==
    IF i > Len(mem) THEN recs
    ELSE LET e == mem[i]
             due == /\ e.data /= << >>
                    /\ IsWatchedFrom(watched, e.address, HeightOfHash(blockHash))
             next == IF due
                     THEN Append(recs,
                            StateRecord("diff", e.address, blockHash,
                                        DiffParent(recs, e.address), e.data))
                     ELSE recs
         IN DumpFrom(next, watched, mem, i + 1, blockHash)

DumpSubgraphState(recs, watched, mem, blockHash) ==
    DumpFrom(recs, watched, mem, 1, blockHash)

\* The state a checkpoint embeds: the data of the contract's diffs up to
\* the block, in their order.
RECURSIVE Aggregate(_, _, _, _)
Aggregate(recs, contract, blockNumber, i) ==
    IF i > Len(recs) THEN << >>
    ELSE (IF /\ recs[i].contractAddress = contract
             /\ recs[i].kind = "diff"
             /\ recs[i].blockNumber <= blockNumber
          THEN recs[i].data ELSE << >>)
         \o Aggregate(recs, contract, blockNumber, i + 1)

\* processCheckpoint(blockHash): a checkpoint for every watched contract
\* whose last init or checkpoint lies the configured number of blocks back.
RECURSIVE ProcessCheckpointFrom(_, _, _, _, _)
ProcessCheckpointFrom(recs, watched, i, blockHash, interval) ==
    IF i > Len(watched) THEN recs
    ELSE LET c == watched[i].address
             n == HeightOfHash(blockHash)
             base == LatestIndex(recs, c, { "init", "checkpoint" })
             due == /\ base /= 0
                    /\ n - recs[base].blockNumber >= interval
             next == IF due
                     THEN Append(recs,
                            StateRecord("checkpoint", c, blockHash,
                                        CheckpointParent(recs, c),
                                        Aggregate(recs, c, n, 1)))
                     ELSE recs
         IN ProcessCheckpointFrom(next, watched, i + 1, blockHash, interval)

ProcessCheckpoint(recs, watched, blockHash, interval) ==
    ProcessCheckpointFrom(recs, watched, 1, blockHash, interval)

\* The status rows only advance.
Advance(current, blockNumber) ==
    IF blockNumber > current THEN blockNumber ELSE current

UpdateIPLDStatusHooksBlock(st, blockNumber) ==
    [ st EXCEPT !.latestIndexedBlockNumber = Advance(@, blockNumber) ]

UpdateIPLDStatusCheckpointBlock(st, blockNumber) ==
    [ st EXCEPT !.latestCheckpointBlockNumber = Advance(@, blockNumber) ]

UpdateIPLDStatusIPFSBlock(st, blockNumber) ==
    [ st EXCEPT !.latestIPFSBlockNumber = Advance(@, blockNumber) ]

\* A map that keeps the value of the first set of a key.
RECURSIVE ContractEntitiesMap_FirstWins(_, _)
ContractEntitiesMap_FirstWins(dataSources, i) ==
    IF i = 0 THEN << >>
    ELSE LET m == ContractEntitiesMap_FirstWins(dataSources, i - 1)
             d == dataSources[i]
         IN IF \E j \in 1..Len(m) : m[j].address = d.address
            THEN m
            ELSE Append(m, [ address |-> d.address, entities |-> d.entities ])

\* contractEntitiesMap after the forEach over the data sources: a Map keeps
\* a key at the place of its first set and the value of its last set.
RECURSIVE ContractEntitiesMap(_, _)
ContractEntitiesMap(dataSources, i) ==
    IF i = 0 THEN << >>
    ELSE LET m == ContractEntitiesMap(dataSources, i - 1)
             d == dataSources[i]
         IN IF \E j \in 1..Len(m) : m[j].address = d.address
            THEN [ j \in 1..Len(m) |->
                     IF m[j].address = d.address
                     THEN [ m[j] EXCEPT !.entities = d.entities ]
                     ELSE m[j] ]
            ELSE Append(m, [ address |-> d.address, entities |-> d.entities ])

DiffDataList_FirstOnly(entities, lists, i) ==
    IF i > Len(entities) THEN << >>
    ELSE [ k \in 1..Len(lists[1]) |-> PrepareEntityState(lists[1][k], entities[1]) ]

\* The updateSubgraphState calls of one contract once its lists are there:
\* entity by entity in the order of the contract's list, and within an
\* entity in the order of the fetched list.
RECURSIVE DiffDataList(_, _, _)
DiffDataList(entities, lists, i) ==
    IF i > Len(entities) THEN << >>
    ELSE [ k \in 1..Len(lists[i]) |-> PrepareEntityState(lists[i][k], entities[i]) ]
         \o DiffDataList(entities, lists, i + 1)

RECURSIVE ApplyAll(_, _, _, _)
ApplyAll(mem, contract, datas, i) ==
    IF i > Len(datas) THEN mem
    ELSE ApplyAll(UpdateSubgraphState(mem, contract, datas[i]), contract,
                  datas, i + 1)

Called(name, height, what) == [ call |-> name, height |-> height, what |-> what ]

FStart ==
    [ pc |-> "start", blockNumber |-> 0, blockHash |-> "",
      entitiesMap |-> << >>, fetched |-> << >>, outOfOrder |-> FALSE,
      applied |-> {}, queue |-> << >>, exitCode |-> None ]

\* process.exit(1)
Exit1(f) == [ f EXCEPT !.pc = "exit", !.exitCode = Some(1) ]

FirstHeight_Skip(startBlock) == startBlock + 1

\* The first height of the loop and the step of the loop.
FirstHeight(startBlock) == startBlock

NextHeight_Repeat(blockNumber) == blockNumber

\* Line 54: blockNumber++
NextHeight(blockNumber) == blockNumber + 1

\* A fillState without the check of the range.
FillStart_NoRangeCheck ==
    /\ fill.pc = "start"
    /\ fill' = [ fill EXCEPT !.pc = "existing" ]
    /\ UNCHANGED << argv, config, blockRows, graphRows, states, syncStatus,
                    subgraph, run, notFill >>

\* Lines 24-28: the range is checked before anything is read.
FillStart ==
    /\ fill.pc = "start"
    /\ fill' = IF argv.startBlock > argv.endBlock
               THEN Exit1(fill)
               ELSE [ fill EXCEPT !.pc = "existing" ]
    /\ UNCHANGED << argv, config, blockRows, graphRows, states, syncStatus,
                    subgraph, run, notFill >>

AfterExisting_NoCheck(f, existingStates, dataSources, startBlock) ==
    [ f EXCEPT !.pc = "loop",
               !.entitiesMap = ContractEntitiesMap(dataSources,
                                                   Len(dataSources)),
               !.blockNumber = startBlock ]

\* What fillState does with the states found in the range.
AfterExisting(f, existingStates, dataSources, startBlock) ==
    IF Len(existingStates) > 0
    THEN Exit1(f)
    ELSE [ f EXCEPT !.pc = "loop",
                    !.entitiesMap = ContractEntitiesMap(dataSources,
                                                        Len(dataSources)),
                    !.blockNumber = FirstHeight(startBlock) ]

\* Lines 33-54: the states of the range are read; the map of the entities
\* of each contract is built and the loop is entered.
FillCheckExisting ==
    /\ fill.pc = "existing"
    /\ fill' = AfterExisting(fill,
                 GetIPLDBlocksBetween(states, argv.startBlock, argv.endBlock),
                 config.dataSources, argv.startBlock)
    /\ UNCHANGED << argv, config, blockRows, graphRows, states, syncStatus,
                    subgraph, run, notFill >>

AfterBlocks_FirstOfMany(f, blocks) ==
    IF Len(blocks) = 0 THEN Exit1(f)
    ELSE [ f EXCEPT !.pc = "createInit", !.blockHash = blocks[1].blockHash ]

\* What fillState does with the non-pruned blocks found at a height.
AfterBlocks(f, blocks) ==
    IF Len(blocks) = 0 THEN Exit1(f)
    ELSE IF Len(blocks) > 1 THEN Exit1(f)
    ELSE [ f EXCEPT !.pc = "createInit", !.blockHash = blocks[1].blockHash ]

\* Lines 54-68: the head of the loop.  The block table is read at the
\* height; what it holds there is fixed by the first read.  The tables
\* considered hold the canonical block alone at all heights but one.
FillLoop(shape) ==
    /\ fill.pc = "loop"
    /\ IF fill.blockNumber <= argv.endBlock
       THEN /\ blockRows[fill.blockNumber] \in { "unknown", shape }
            /\ \/ shape = "one"
               \/ \A h \in Heights \ { fill.blockNumber } :
                     blockRows[h] \in { "unknown", "one" }
            /\ blockRows' = [ blockRows EXCEPT ![fill.blockNumber] = shape ]
            /\ fill' = AfterBlocks(fill,
                         GetBlocksAtHeight(blockRows', fill.blockNumber, FALSE))
       ELSE /\ shape = "one"
            /\ fill' = [ fill EXCEPT !.pc = "done", !.exitCode = Some(0) ]
            /\ UNCHANGED blockRows
    /\ UNCHANGED << argv, config, graphRows, states, syncStatus, subgraph,
                    run, notFill >>

\* Lines 70-79: createInit, then the entity queries of every contract of
\* the map are sent.
FillCreateInit ==
    /\ fill.pc = "createInit"
    /\ states' = CreateInit(states, config.watched, fill.blockHash,
                            fill.blockNumber)
    /\ run' = [ run EXCEPT !.log =
                  Append(@, Called("createInit", fill.blockNumber, "")) ]
    /\ fill' = [ fill EXCEPT
                   !.pc = "fetch",
                   !.fetched = [ i \in 1..Len(fill.entitiesMap) |->
                                   [ k \in 1..Len(fill.entitiesMap[i].entities)
                                       |-> None ] ],
                   !.outOfOrder = FALSE,
                   !.applied = {} ]
    /\ UNCHANGED << argv, config, blockRows, graphRows, syncStatus, subgraph,
                    notFill >>

\* Line 78: one getEntitiesForBlock query is answered.  The queries of all
\* contracts are in flight together and are answered in any order;
\* outOfOrder records, until the state is dumped, that a query was answered
\* before a query for an earlier entity of its contract.
FillFetchDone(i, k, list) ==
    /\ fill.pc = "fetch"
    /\ i \in 1..Len(fill.fetched)
    /\ k \in 1..Len(fill.fetched[i])
    /\ fill.fetched[i][k] = None
    /\ LET entity == fill.entitiesMap[i].entities[k]
       IN /\ list \in UpdateLists(entity, fill.blockNumber)
          /\ graphRows[fill.blockNumber][entity] \in { None, Some(list) }
          /\ graphRows' = [ graphRows EXCEPT
                              ![fill.blockNumber][entity] = Some(list) ]
    /\ fill' = [ fill EXCEPT !.fetched[i][k] = Some(list),
                             !.outOfOrder =
                                (@ \/ \E j \in 1..(k - 1) :
                                         fill.fetched[i][j] = None) ]
    /\ UNCHANGED << argv, config, blockRows, states, syncStatus, subgraph,
                    run, notFill >>

\* Lines 80-93: the lists of one contract are all there, and its updates
\* are applied to the in-memory state.
FillApply(i) ==
    /\ fill.pc = "fetch"
    /\ i \in 1..Len(fill.fetched)
    /\ i \notin fill.applied
    /\ \A k \in 1..Len(fill.fetched[i]) : IsSome(fill.fetched[i][k])
    /\ LET e == fill.entitiesMap[i]
           lists == [ k \in 1..Len(fill.fetched[i]) |-> Val(fill.fetched[i][k]) ]
           datas == DiffDataList(e.entities, lists, 1)
       IN /\ subgraph' = ApplyAll(subgraph, e.address, datas, 1)
          /\ run' = [ run EXCEPT !.log = @ \o
                        [ d \in 1..Len(datas) |->
                            Called("updateSubgraphState", fill.blockNumber,
                                   e.address) ] ]
    /\ fill' = [ fill EXCEPT !.applied = @ \cup { i } ]
    /\ UNCHANGED << argv, config, blockRows, graphRows, states, syncStatus,
                    notFill >>

\* A dump that does not wait for the contracts' callbacks.
FillDump_Early ==
    /\ fill.pc = "fetch"
    /\ states' = DumpSubgraphState(states, config.watched, subgraph,
                                   fill.blockHash)
    /\ subgraph' = << >>
    /\ run' = [ run EXCEPT !.log =
                  Append(@, Called("dumpSubgraphState", fill.blockNumber, "")) ]
    /\ fill' = [ fill EXCEPT !.pc = "hooksStatus" ]
    /\ UNCHANGED << argv, config, blockRows, graphRows, syncStatus, notFill >>

\* Lines 96-99: every contract is done; the in-memory state is persisted
\* as finalized diffs.
FillDump ==
    /\ fill.pc = "fetch"
    /\ fill.applied = 1..Len(fill.entitiesMap)
    /\ states' = DumpSubgraphState(states, config.watched, subgraph,
                                   fill.blockHash)
    /\ subgraph' = << >>
    /\ run' = [ run EXCEPT !.log =
                  Append(@, Called("dumpSubgraphState", fill.blockNumber, "")) ]
    /\ fill' = [ fill EXCEPT !.pc = "hooksStatus" ]
    /\ UNCHANGED << argv, config, blockRows, graphRows, syncStatus, notFill >>

FillHooksStatus_Skipped ==
    /\ fill.pc = "hooksStatus"
    /\ fill' = [ fill EXCEPT !.pc = "checkpoint", !.outOfOrder = FALSE ]
    /\ UNCHANGED << argv, config, blockRows, graphRows, states, syncStatus,
                    subgraph, run, notFill >>

\* Line 100
FillHooksStatus ==
    /\ fill.pc = "hooksStatus"
    /\ syncStatus' = UpdateIPLDStatusHooksBlock(syncStatus, fill.blockNumber)
    /\ run' = [ run EXCEPT !.log =
                  Append(@, Called("updateIPLDStatusHooksBlock",
                                   fill.blockNumber, "")) ]
    /\ fill' = [ fill EXCEPT !.pc = "checkpoint", !.outOfOrder = FALSE ]
    /\ UNCHANGED << argv, config, blockRows, graphRows, states, subgraph,
                    notFill >>

\* Line 103
FillCheckpoint ==
    /\ fill.pc = "checkpoint"
    /\ states' = ProcessCheckpoint(states, config.watched, fill.blockHash,
                                   config.checkpointInterval)
    /\ run' = [ run EXCEPT !.log =
                  Append(@, Called("processCheckpoint", fill.blockNumber, "")) ]
    /\ fill' = [ fill EXCEPT !.pc = "checkpointStatus" ]
    /\ UNCHANGED << argv, config, blockRows, graphRows, syncStatus, subgraph,
                    notFill >>

\* The end of one iteration.
EndOfIteration(f) ==
    [ f EXCEPT !.pc = "loop", !.blockNumber = NextHeight(@) ]

\* A fillState that pushes whether or not IPFS is configured.
FillCheckpointStatus_AlwaysPush ==
    /\ fill.pc = "checkpointStatus"
    /\ syncStatus' = UpdateIPLDStatusCheckpointBlock(syncStatus,
                                                     fill.blockNumber)
    /\ run' = [ run EXCEPT !.log =
                  Append(@, Called("updateIPLDStatusCheckpointBlock",
                                   fill.blockNumber, "")) ]
    /\ fill' = [ fill EXCEPT !.pc = "ipfsGet" ]
    /\ UNCHANGED << argv, config, blockRows, graphRows, states, subgraph,
                    notFill >>

\* Lines 104-107
FillCheckpointStatus ==
    /\ fill.pc = "checkpointStatus"
    /\ syncStatus' = UpdateIPLDStatusCheckpointBlock(syncStatus,
                                                     fill.blockNumber)
    /\ run' = [ run EXCEPT !.log =
                  Append(@, Called("updateIPLDStatusCheckpointBlock",
                                   fill.blockNumber, "")) ]
    /\ fill' = IF config.isIPFSConfigured
               THEN [ fill EXCEPT !.pc = "ipfsGet" ]
               ELSE EndOfIteration(fill)
    /\ UNCHANGED << argv, config, blockRows, graphRows, states, subgraph,
                    notFill >>

\* Line 109
FillIPFSGet ==
    /\ fill.pc = "ipfsGet"
    /\ LET ipldBlocks == GetIPLDBlocksByHash(states, fill.blockHash)
       IN fill' = [ fill EXCEPT
                      !.queue = ipldBlocks,
                      !.pc = IF ipldBlocks = << >> THEN "ipfsStatus"
                             ELSE "push" ]
    /\ UNCHANGED << argv, config, blockRows, graphRows, states, syncStatus,
                    subgraph, run, notFill >>

\* Lines 112-115: one record is pushed.
FillPush ==
    /\ fill.pc = "push"
    /\ run' = [ run EXCEPT !.log =
                  Append(@, Called("pushToIPFS", fill.blockNumber,
                                   Head(fill.queue).cid)) ]
    /\ fill' = [ fill EXCEPT
                   !.queue = Tail(@),
                   !.pc = IF Tail(fill.queue) = << >> THEN "ipfsStatus"
                          ELSE "push" ]
    /\ UNCHANGED << argv, config, blockRows, graphRows, states, syncStatus,
                    subgraph, notFill >>

\* Line 118
FillIPFSStatus ==
    /\ fill.pc = "ipfsStatus"
    /\ syncStatus' = UpdateIPLDStatusIPFSBlock(syncStatus, fill.blockNumber)
    /\ run' = [ run EXCEPT !.log =
                  Append(@, Called("updateIPLDStatusIPFSBlock",
                                   fill.blockNumber, "")) ]
    /\ fill' = EndOfIteration(fill)
    /\ UNCHANGED << argv, config, blockRows, graphRows, states, subgraph,
                    notFill >>

\* A run's record: its number, the calls it has made, the database it
\* started on, and the frame the run before it ended with.
NewRun(n, recs, st, previous) ==
    [ n |-> n, log |-> << >>, statesAtStart |-> recs, statusAtStart |-> st,
      previous |-> previous ]

\* The command is run again, with the same arguments, on the database the
\* previous run left.
FillRerun ==
    /\ fill.pc \in { "exit", "done" }
    /\ run.n < MaxRuns
    /\ fill' = FStart
    /\ run' = NewRun(run.n + 1, states, syncStatus, fill)
    /\ UNCHANGED << argv, config, blockRows, graphRows, states, syncStatus,
                    subgraph, notFill >>

\* The states a database holds before the command is run: none, the inits
\* of the watched contracts, or these and one diff of the first contract.
InitRecords(startingA, startingB) ==
    LET a == StateRecord("init", CA, HashA(startingA), None, << >>)
        b == StateRecord("init", CB, HashA(startingB), None, << >>)
    IN IF startingA <= startingB THEN << a, b >> ELSE << b, a >>

PreStates(startingA, startingB) ==
    { << >>, InitRecords(startingA, startingB) } \cup
    { Append(InitRecords(startingA, startingB),
             StateRecord("diff", CA, HashA(h),
                         Some(Cid("init", CA, HashA(startingA))),
                         << PrepareEntityState("a", "E2") >>)) :
        h \in startingA..MaxHeight }

RECURSIVE MaxBlockNumber(_, _)
MaxBlockNumber(recs, i) ==
    IF i > Len(recs) THEN 0
    ELSE LET m == MaxBlockNumber(recs, i + 1)
         IN IF recs[i].blockNumber > m THEN recs[i].blockNumber ELSE m

StatusRow(indexed) ==
    [ latestIndexedBlockNumber |-> indexed,
      latestCheckpointBlockNumber |-> 0,
      latestIPFSBlockNumber |-> 0 ]

FillInit ==
    \E startBlock \in Heights, endBlock \in Heights, startingA \in Heights,
       dataSources \in DataSourceLists, interval \in CheckpointIntervals,
       ipfs \in BOOLEAN :
      \E pre \in PreStates(startingA, 1), indexed \in { 0, MaxHeight } :
        /\ indexed >= MaxBlockNumber(pre, 1)
        /\ argv = [ startBlock |-> startBlock, endBlock |-> endBlock ]
        /\ config = [ watched |-> Watched(startingA, 1),
                      dataSources |-> dataSources,
                      checkpointInterval |-> interval,
                      isIPFSConfigured |-> ipfs ]
        /\ blockRows = [ h \in Heights |->
                           IF \E i \in 1..Len(pre) : pre[i].blockNumber = h
                           THEN "one" ELSE "unknown" ]
        /\ graphRows = [ h \in Heights |-> [ e \in Entities |-> None ] ]
        /\ states = pre
        /\ syncStatus = StatusRow(indexed)
        /\ subgraph = << >>
        /\ fill = FStart
        /\ run = NewRun(1, pre, StatusRow(indexed), FStart)

\* The command run on an empty database, the two contracts being watched
\* from one block, which may lie above the beginning of the range.
FillInitLate ==
    \E startBlock \in Heights, endBlock \in Heights, starting \in Heights,
       dataSources \in DataSourceLists, interval \in CheckpointIntervals,
       ipfs \in BOOLEAN :
        /\ argv = [ startBlock |-> startBlock, endBlock |-> endBlock ]
        /\ config = [ watched |-> Watched(starting, starting),
                      dataSources |-> dataSources,
                      checkpointInterval |-> interval,
                      isIPFSConfigured |-> ipfs ]
        /\ blockRows = [ h \in Heights |-> "unknown" ]
        /\ graphRows = [ h \in Heights |-> [ e \in Entities |-> None ] ]
        /\ states = << >>
        /\ syncStatus = StatusRow(0)
        /\ subgraph = << >>
        /\ fill = FStart
        /\ run = NewRun(1, << >>, StatusRow(0), FStart)

FillNext ==
    \/ FillStart
    \/ FillCheckExisting
    \/ \E shape \in Shapes : FillLoop(shape)
    \/ FillCreateInit
    \/ \E i \in 1..2, k \in 1..2, list \in AllUpdateLists :
         FillFetchDone(i, k, list)
    \/ \E i \in 1..2 : FillApply(i)
    \/ FillDump
    \/ FillHooksStatus
    \/ FillCheckpoint
    \/ FillCheckpointStatus
    \/ FillIPFSGet
    \/ FillPush
    \/ FillIPFSStatus
    \/ FillRerun

FillIdle ==
    /\ argv = [ startBlock |-> 1, endBlock |-> 1 ]
    /\ config = [ watched |-> Watched(1, 1),
                  dataSources |-> << >>,
                  checkpointInterval |-> 1,
                  isIPFSConfigured |-> FALSE ]
    /\ blockRows = [ h \in Heights |-> "unknown" ]
    /\ graphRows = [ h \in Heights |-> [ e \in Entities |-> None ] ]
    /\ states = << >>
    /\ syncStatus = StatusRow(0)
    /\ subgraph = << >>
    /\ fill = FStart
    /\ run = NewRun(1, << >>, StatusRow(0), FStart)

(***************************************************************************)
(* checkIPLDMetaData (the compare utilities).                              *)
(*                                                                         *)
(* The state records of the watched contracts are fed to checkIPLDMetaData *)
(* in block order, each with a CID of its own; the record fed last may be  *)
(* fed again, as happens at a block without a new state.  What is kept of  *)
(* the records fed is what the parenting rule needs: per contract, its     *)
(* latest init or diff, its latest checkpoint, and whether every record so *)
(* far had the parent the rule gives it.                                   *)
(***************************************************************************)
MaxRecords == 3

Compared == { CA, CB }

RecordCid(n) == "bafy" \o DecStr(n)

BlockCid(n) == "blk" \o DecStr(n)

\* meta.parent is { '/': null } in a record without a parent.
NullParent == "null"

ForeignCid == RecordCid(0)

MetaFaults == { "none", "ethBlock" }

\* data.meta of a record, as the watcher wrote it or with one field off.
MetaOf(contract, kind, parent, blockNumber, fault) ==
    [ id |-> IF fault = "id" THEN "0xother" ELSE contract,
      kind |-> kind,
      parent |-> parent,
      ethBlock |-> [ cid |-> BlockCid(blockNumber),
                     num |-> IF fault = "ethBlock" THEN blockNumber + 1
                             ELSE blockNumber ] ]

\* One result of the state query.
ContractIPLD(contract, kind, n, parent, blockNumber, fault) ==
    [ contractAddress |-> contract, cid |-> RecordCid(n), kind |-> kind,
      block |-> [ cid |-> BlockCid(blockNumber), number |-> blockNumber ],
      data |-> [ meta |-> MetaOf(contract, kind, parent, blockNumber, fault) ] ]

\* compareObjects(expected, actual): the keys on which the two differ; the
\* string returned is empty when there is none.
CompareObjects(obj1, obj2) ==
    { k \in DOMAIN obj1 : obj1[k] /= obj2[k] }

Returned(keys) == [ returned |-> "string", diff |-> keys ]

ReturnedUndefined == [ returned |-> "undefined", diff |-> {} ]

EmptyCIDs == [ diff |-> "", checkpoint |-> "" ]

NextParentCIDs_KeepCheckpoint(parentCIDs, kind, cid) ==
    IF kind = "checkpoint"
    THEN [ diff |-> parentCIDs.diff, checkpoint |-> cid ]
    ELSE [ diff |-> cid, checkpoint |-> parentCIDs.checkpoint ]

\* Lines 241-246: the CIDs kept for the contract after this record.
NextParentCIDs(parentCIDs, kind, cid) ==
    IF kind = "checkpoint"
    THEN [ diff |-> parentCIDs.diff, checkpoint |-> cid ]
    ELSE [ diff |-> cid, checkpoint |-> "" ]

ExpectedParent_Actual(parentCIDs, actualParentCID) == actualParentCID

ExpectedParent_DiffOnly(parentCIDs, actualParentCID) ==
    IF parentCIDs.diff = "" THEN actualParentCID ELSE parentCIDs.diff

\* Lines 251-262: the parent CID expected of the record.
ExpectedParent(parentCIDs, actualParentCID) ==
    IF parentCIDs.diff = ""
    THEN actualParentCID
    ELSE IF parentCIDs.checkpoint /= "" /\ actualParentCID = parentCIDs.checkpoint
         THEN parentCIDs.checkpoint
         ELSE parentCIDs.diff

\* Lines 264-279
ExpectedMetaData(contractIPLD, parentCID) ==
    [ id |-> contractIPLD.contractAddress,
      kind |-> contractIPLD.kind,
      parent |-> parentCID,
      ethBlock |-> [ cid |-> contractIPLD.block.cid,
                     num |-> contractIPLD.block.number ] ]

CheckIPLDMetaData_UpdateWhenEqual(contractIPLD, map) ==
    IF contractIPLD = None
    THEN [ map |-> map, result |-> ReturnedUndefined ]
    ELSE LET r == Val(contractIPLD)
             parentCIDs == map[r.contractAddress]
             keys == CompareObjects(
                       ExpectedMetaData(r,
                         ExpectedParent(parentCIDs, r.data.meta.parent)),
                       r.data.meta)
         IN IF r.cid = parentCIDs.diff \/ r.cid = parentCIDs.checkpoint
            THEN [ map |-> map, result |-> ReturnedUndefined ]
            ELSE [ map |-> IF keys = {}
                           THEN [ map EXCEPT ![r.contractAddress] =
                                    NextParentCIDs(parentCIDs, r.kind, r.cid) ]
                           ELSE map,
                   result |-> Returned(keys) ]

CheckIPLDMetaData_NoSkip(contractIPLD, map) ==
    IF contractIPLD = None
    THEN [ map |-> map, result |-> ReturnedUndefined ]
    ELSE LET r == Val(contractIPLD)
             parentCIDs == map[r.contractAddress]
         IN [ map |-> [ map EXCEPT ![r.contractAddress] =
                          NextParentCIDs(parentCIDs, r.kind, r.cid) ],
              result |-> Returned(CompareObjects(
                  ExpectedMetaData(r,
                    ExpectedParent(parentCIDs, r.data.meta.parent)),
                  r.data.meta)) ]

\* checkIPLDMetaData(contractIPLD, contractLatestStateCIDMap, rawJson): the
\* map it leaves and what it returns.  An absent record is None.
CheckIPLDMetaData(contractIPLD, map) ==
    IF contractIPLD = None
    THEN [ map |-> map, result |-> ReturnedUndefined ]
    ELSE LET r == Val(contractIPLD)
             parentCIDs == map[r.contractAddress]
         IN IF r.cid = parentCIDs.diff \/ r.cid = parentCIDs.checkpoint
            THEN [ map |-> map, result |-> ReturnedUndefined ]
            ELSE [ map |-> [ map EXCEPT ![r.contractAddress] =
                               NextParentCIDs(parentCIDs, r.kind, r.cid) ],
                   result |-> Returned(CompareObjects(
                       ExpectedMetaData(r,
                         ExpectedParent(parentCIDs, r.data.meta.parent)),
                       r.data.meta)) ]

NoRecord == [ cid |-> "", block |-> 0, idx |-> 0 ]

NoChain ==
    [ count |-> 0, lastDiff |-> NoRecord, lastCheckpoint |-> NoRecord,
      lastKind |-> "", ok |-> TRUE, reported |-> FALSE ]

\* The parents the parenting rule allows the next record of a contract: an
\* init has none and comes first; a checkpoint has the newer of the latest
\* diff and the latest checkpoint; a diff has the latest init or diff, or
\* the latest checkpoint when that was created after it in its block.  The
\* rule says nothing of the first record fed, nor of a diff while no init or
\* diff has been fed.
RuleParents(ch, kind, candidates) ==
    LET d == ch.lastDiff
        k == ch.lastCheckpoint
    IN CASE kind = "init" ->
              IF ch.count = 0 THEN { NullParent } ELSE {}
         [] ch.count = 0 -> candidates
         [] kind = "checkpoint" ->
              { IF k.idx > d.idx THEN k.cid ELSE d.cid }
         [] OTHER ->
              IF d.idx = 0 THEN candidates
              ELSE IF k.idx > d.idx /\ k.block = d.block
                   THEN { k.cid }
                   ELSE { d.cid }

\* reported: the check found the record's parent to be another than expected.
ChainAfter(ch, r, candidates, reported) ==
    LET here == [ cid |-> r.cid, block |-> r.block.number,
                  idx |-> ch.count + 1 ]
    IN [ count |-> ch.count + 1,
         lastDiff |-> IF r.kind = "checkpoint" THEN ch.lastDiff ELSE here,
         lastCheckpoint |-> IF r.kind = "checkpoint" THEN here
                            ELSE ch.lastCheckpoint,
         lastKind |-> r.kind,
         ok |-> /\ ch.ok
                /\ r.data.meta.parent \in RuleParents(ch, r.kind, candidates),
         reported |-> reported ]

\* The parents tried for a record: none or an unknown CID for an init; an
\* unknown CID or the CID of a record fed before for the others.
ParentCandidates(kind, n) ==
    IF kind = "init" THEN { NullParent, ForeignCid }
    ELSE { ForeignCid } \cup { RecordCid(i) : i \in 1..n }

AllParents == { NullParent, ForeignCid } \cup { RecordCid(i) : i \in 1..MaxRecords }

MetaIdleCall ==
    [ fed |-> None, before |-> EmptyCIDs,
      chainBefore |-> NoChain, result |-> ReturnedUndefined ]

\* The next record of a contract is fed.  The first contract has a chain of
\* records; the second has one record, which comes anywhere between them.
Feed(contract, kind, parent, later, fault) ==
    /\ nFed < MaxRecords
    /\ contract = CB => chain[CB].count = 0
    /\ parent \in ParentCandidates(kind, nFed)
    /\ LET blockNumber == IF later THEN curBlock + 1 ELSE curBlock
           r == ContractIPLD(contract, kind, nFed + 1, parent, blockNumber,
                             fault)
           out == CheckIPLDMetaData(Some(r), contractLatestStateCIDMap)
       IN /\ contractLatestStateCIDMap' = out.map
          /\ chain' = [ chain EXCEPT ![contract] =
                          ChainAfter(@, r, ParentCandidates(kind, nFed),
                                     "parent" \in out.result.diff) ]
          /\ curBlock' = blockNumber
          /\ metaCall' = [ fed |-> Some(r),
                           before |-> contractLatestStateCIDMap[contract],
                           chainBefore |-> chain[contract],
                           result |-> out.result ]
    /\ nFed' = nFed + 1
    /\ UNCHANGED notMeta

\* The record fed last is fed again.
Refeed ==
    /\ IsSome(metaCall.fed)
    /\ LET r == Val(metaCall.fed)
           out == CheckIPLDMetaData(Some(r), contractLatestStateCIDMap)
       IN /\ contractLatestStateCIDMap' = out.map
          /\ metaCall' = [ metaCall EXCEPT
                             !.before = contractLatestStateCIDMap[r.contractAddress],
                             !.chainBefore = chain[r.contractAddress],
                             !.result = out.result ]
    /\ UNCHANGED << chain, nFed, curBlock, notMeta >>

\* The query found no state of the contract.
FeedAbsent ==
    /\ metaCall /= MetaIdleCall
    /\ LET out == CheckIPLDMetaData(None, contractLatestStateCIDMap)
       IN /\ contractLatestStateCIDMap' = out.map
          /\ metaCall' = [ MetaIdleCall EXCEPT !.result = out.result ]
    /\ UNCHANGED << chain, nFed, curBlock, notMeta >>

MetaIdle ==
    /\ contractLatestStateCIDMap = [ c \in Compared |-> EmptyCIDs ]
    /\ chain = [ c \in Compared |-> NoChain ]
    /\ nFed = 0
    /\ curBlock = 1
    /\ metaCall = MetaIdleCall

MetaNext ==
    \/ \E contract \in Compared, kind \in AllKinds, later \in BOOLEAN,
          fault \in MetaFaults, parent \in AllParents :
         Feed(contract, kind, parent, later, fault)
    \/ Refeed
    \/ FeedAbsent

(***************************************************************************)
(* combineIPLDState (part_000:282-313).  A state record's data.state is    *)
(* held as a map from the path of an array field (entity type, entity id,  *)
(* field name) to the array, absent where the record has no such field.    *)
(***************************************************************************)
\* The source's DEFAULT_LIMIT is 100; the arrays checked are one longer
\* than the value here.
DEFAULT_LIMIT == 2

\* The ids of the referenced entities.  "\\u00e9" and "e\\u0301" stand for
\* the one-character and the two-character form of the same accented letter.
Ids == { "", "a", "B", "\\u00e9", "e\\u0301" }

Paths == { << "Producer", "0x01", "epochs" >>,
           << "Producer", "0x01", "rewards" >> }

\* String.prototype.localeCompare: letters are ordered alphabetically
\* before case, and canonically equivalent strings compare equal.
LocaleRank(id) ==
    CASE id = "" -> 0
      [] id = "a" -> 1
      [] id = "B" -> 2
      [] OTHER -> 3

LocaleCompare(a, b) == LocaleRank(a) - LocaleRank(b)

\* Array.prototype.sort with (a, b) => a.id.localeCompare(b.id); the sort
\* is stable.
RECURSIVE InsertSorted(_, _)
InsertSorted(sorted, x) ==
    IF sorted = << >> THEN << x >>
    ELSE LET n == Len(sorted)
         IN IF LocaleCompare(sorted[n].id, x.id) > 0
            THEN InsertSorted(SubSeq(sorted, 1, n - 1), x) \o << sorted[n] >>
            ELSE sorted \o << x >>

RECURSIVE SortById(_)
SortById(fieldValue) ==
    IF fieldValue = << >> THEN << >>
    ELSE LET n == Len(fieldValue)
         IN InsertSorted(SortById(SubSeq(fieldValue, 1, n - 1)), fieldValue[n])

\* Array.prototype.splice(start): what is left of the array.
Splice(fieldValue, start) ==
    IF Len(fieldValue) <= start THEN fieldValue
    ELSE SubSeq(fieldValue, 1, start)

SortAndLimit_LimitFirst(fieldValue) ==
    IF Len(fieldValue) /= 0 /\ fieldValue[1].id /= ""
    THEN SortById(Splice(fieldValue, DEFAULT_LIMIT))
    ELSE fieldValue

\* part_000:297-304.
SortAndLimit(fieldValue) ==
    IF Len(fieldValue) /= 0 /\ fieldValue[1].id /= ""
    THEN Splice(SortById(fieldValue), DEFAULT_LIMIT)
    ELSE fieldValue

EmptyState == [ p \in Paths |-> None ]

\* part_000:283-309: the state of one record; a missing record gives {}.
ParsedState(contractIPLD) ==
    IF contractIPLD = None THEN EmptyState
    ELSE LET state == Val(contractIPLD)
         IN [ p \in Paths |->
                IF IsSome(state[p]) THEN Some(SortAndLimit(Val(state[p])))
                ELSE None ]

\* _.merge on two arrays of { id } objects: index by index, the source's
\* element over the object's.
MergeArray(objValue, srcValue) ==
    LET n == IF Len(objValue) > Len(srcValue) THEN Len(objValue)
             ELSE Len(srcValue)
    IN [ i \in 1..n |-> IF i <= Len(srcValue) THEN srcValue[i]
                        ELSE objValue[i] ]

\* _.merge(acc, state).
Merge(acc, state) ==
    [ p \in Paths |->
        IF state[p] = None THEN acc[p]
        ELSE IF acc[p] = None THEN state[p]
        ELSE Some(MergeArray(Val(acc[p]), Val(state[p]))) ]

\* part_000:311: reduce without an initial value.
RECURSIVE Reduce(_)
Reduce(contractIPLDStates) ==
    LET n == Len(contractIPLDStates)
    IN IF n = 1 THEN contractIPLDStates[1]
       ELSE Merge(Reduce(SubSeq(contractIPLDStates, 1, n - 1)),
                  contractIPLDStates[n])

CombineIPLDState(contractIPLDs) ==
    Reduce([ i \in 1..Len(contractIPLDs) |-> ParsedState(contractIPLDs[i]) ])

\* The inputs: arrays of references with distinct ids, up to one element
\* longer than the limit; one or two records, the first with the "epochs"
\* array, the second with either array; a record may be missing.
Arrays ==
    { arr \in UNION { [ 1..n -> [ id : Ids ] ] : n \in 0..(DEFAULT_LIMIT + 1) } :
        \A i \in 1..Len(arr), j \in 1..Len(arr) :
           i /= j => arr[i].id /= arr[j].id }

StateWith(path, arr) == [ p \in Paths |-> IF p = path THEN Some(arr) ELSE None ]

FirstRecords ==
    { None } \cup { Some(StateWith(<< "Producer", "0x01", "epochs" >>, arr)) :
                      arr \in Arrays }

SecondRecords ==
    { None } \cup { Some(StateWith(p, arr)) : p \in Paths, arr \in Arrays }

CombineInputs ==
    { << r >> : r \in FirstRecords }
      \cup { << r1, r2 >> : r1 \in FirstRecords, r2 \in SecondRecords }

CombineIdleCall == [ pc |-> "idle", contractIPLDs |-> << >>, result |-> None ]

CombineCall(contractIPLDs) ==
    /\ combine.pc = "idle"
    /\ combine' = [ pc |-> "done",
                    contractIPLDs |-> contractIPLDs,
                    result |-> Some(CombineIPLDState(contractIPLDs)) ]
    /\ UNCHANGED notCombine

CombineReturn ==
    /\ combine.pc = "done"
    /\ combine' = CombineIdleCall
    /\ UNCHANGED notCombine

CombineIdle == combine = CombineIdleCall

\* The inputs a caller may pass now.
CallInputs == IF combine.pc = "idle" THEN CombineInputs ELSE {}

CombineNext ==
    \/ \E contractIPLDs \in CallInputs : CombineCall(contractIPLDs)
    \/ CombineReturn

(***************************************************************************)
(* The sync status row and its guarded updaters (types.ts:35-45, 101-103,  *)
(* 161-163).  The bodies of the updaters are not in the sources at hand;   *)
(* they follow the design notes: a cursor advances to a greater number or  *)
(* under force, latestIndexed not past chainHead without force, and        *)
(* latestCanonical never past latestIndexed.                               *)
(***************************************************************************)
MaxNumber == 3

Numbers == 1..MaxNumber

\* types.ts:35-45, before any block is known.
SyncStatusRow ==
    [ chainHeadBlockHash |-> "", chainHeadBlockNumber |-> 0,
      latestIndexedBlockHash |-> "", latestIndexedBlockNumber |-> 0,
      latestCanonicalBlockHash |-> "", latestCanonicalBlockNumber |-> 0 ]

UpdateSyncStatusChainHead_Always(s, blockHash, blockNumber, force) ==
    [ s EXCEPT !.chainHeadBlockHash = blockHash,
               !.chainHeadBlockNumber = blockNumber ]

UpdateSyncStatusChainHead(s, blockHash, blockNumber, force) ==
    IF force \/ blockNumber > s.chainHeadBlockNumber
    THEN [ s EXCEPT !.chainHeadBlockHash = blockHash,
                    !.chainHeadBlockNumber = blockNumber ]
    ELSE s

UpdateSyncStatusIndexedBlock_PastHead(s, blockHash, blockNumber, force) ==
    IF force \/ blockNumber > s.latestIndexedBlockNumber
    THEN [ s EXCEPT !.latestIndexedBlockHash = blockHash,
                    !.latestIndexedBlockNumber = blockNumber ]
    ELSE s

UpdateSyncStatusIndexedBlock(s, blockHash, blockNumber, force) ==
    IF force \/ ( /\ blockNumber > s.latestIndexedBlockNumber
                  /\ blockNumber <= s.chainHeadBlockNumber )
    THEN [ s EXCEPT !.latestIndexedBlockHash = blockHash,
                    !.latestIndexedBlockNumber = blockNumber ]
    ELSE s

UpdateSyncStatusCanonicalBlock(s, blockHash, blockNumber, force) ==
    IF /\ force \/ blockNumber > s.latestCanonicalBlockNumber
       /\ blockNumber <= s.latestIndexedBlockNumber
    THEN [ s EXCEPT !.latestCanonicalBlockHash = blockHash,
                    !.latestCanonicalBlockNumber = blockNumber ]
    ELSE s

Updaters ==
    { "updateSyncStatusChainHead", "updateSyncStatusIndexedBlock",
      "updateSyncStatusCanonicalBlock" }

Updated(s, updater, blockHash, blockNumber, force) ==
    CASE updater = "updateSyncStatusChainHead" ->
           UpdateSyncStatusChainHead(s, blockHash, blockNumber, force)
      [] updater = "updateSyncStatusIndexedBlock" ->
           UpdateSyncStatusIndexedBlock(s, blockHash, blockNumber, force)
      [] updater = "updateSyncStatusCanonicalBlock" ->
           UpdateSyncStatusCanonicalBlock(s, blockHash, blockNumber, force)

\* The record of a call of an updater: who called, with what, on which row.
UpdateCall(caller, updater, blockNumber, force, before) ==
    [ caller |-> caller, updater |-> updater, blockNumber |-> blockNumber,
      force |-> force, before |-> before ]

NoUpdate == UpdateCall("", "", 0, FALSE, SyncStatusRow)

NoReorg == [ pc |-> "idle", hash |-> "", ancestor |-> 0 ]

Min(a, b) == IF a < b THEN a ELSE b

\* The reorg handler's forced updates: latestIndexed to the common
\* ancestor, if it is above it, and latestCanonical to the lower of its
\* number and the ancestor's.
RewoundIndexed(s, blockHash, ancestor) ==
    IF s.latestIndexedBlockNumber > ancestor
    THEN UpdateSyncStatusIndexedBlock(s, blockHash, ancestor, TRUE)
    ELSE s

RewoundCanonical(s, blockHash, ancestor) ==
    LET number == Min(s.latestCanonicalBlockNumber, ancestor)
    IN UpdateSyncStatusCanonicalBlock(
         s, IF number = ancestor THEN blockHash ELSE s.latestCanonicalBlockHash,
         number, TRUE)

\* An updater is called without force, as the indexer and the processor
\* call it, with any block.
CursorUpdate(updater, blockHash, blockNumber) ==
    /\ reorg.pc = "idle"
    /\ sync' = Updated(sync, updater, blockHash, blockNumber, FALSE)
    /\ update' = UpdateCall("indexer", updater, blockNumber, FALSE, sync)
    /\ UNCHANGED << reorg, notCursor >>

\* The reorg handler rewinds latestIndexed to the common ancestor, if it
\* is above it.
CursorRewindIndexed(blockHash, ancestor) ==
    /\ reorg.pc = "idle"
    /\ ancestor <= sync.chainHeadBlockNumber
    /\ sync' = RewoundIndexed(sync, blockHash, ancestor)
    /\ update' = UpdateCall("reorg", "updateSyncStatusIndexedBlock", ancestor,
                            TRUE, sync)
    /\ reorg' = [ pc |-> "rewindCanonical", hash |-> blockHash,
                  ancestor |-> ancestor ]
    /\ UNCHANGED notCursor

\* The reorg handler rewinds latestCanonical to the lower of its number and
\* the common ancestor's.
CursorRewindCanonical ==
    /\ reorg.pc = "rewindCanonical"
    /\ sync' = RewoundCanonical(sync, reorg.hash, reorg.ancestor)
    /\ update' = UpdateCall("reorg", "updateSyncStatusCanonicalBlock",
                            Min(sync.latestCanonicalBlockNumber, reorg.ancestor),
                            TRUE, sync)
    /\ reorg' = NoReorg
    /\ UNCHANGED notCursor

CursorIdle ==
    /\ sync = SyncStatusRow
    /\ update = NoUpdate
    /\ reorg = NoReorg

CursorNext ==
    \/ \E updater \in Updaters, n \in Numbers :
         CursorUpdate(updater, HashA(n), n)
    \/ \E n \in Numbers : CursorRewindIndexed(HashA(n), n)
    \/ CursorRewindCanonical

(***************************************************************************)
(* The watcher's pipeline: the indexer saves blocks, the processor applies *)
(* their events and materializes state, the reorg handler replaces a       *)
(* branch, and the CLI creates checkpoints.  The sources at hand declare   *)
(* these operations (types.ts:82-181) and describe their effects           *)
(* (demo.md:121-180); their bodies follow the design notes.                *)
(***************************************************************************)
\* The number of blocks under the processed tip at which a block counts as
\* canonical (pruned region).
PruneDepth == 1

\* The upstream chain: branch A, and from the block after `fork` on,
\* branch B once the upstream has reorganized (fork > 0).
UpstreamHash(f, n) == IF f > 0 /\ n > f THEN HashB(n) ELSE HashA(n)

WHashes == { HashA(n) : n \in Numbers } \cup { HashB(n) : n \in Numbers }

NumberOf(hash) == CHOOSE n \in Numbers : hash \in { HashA(n), HashB(n) }

OnBranchB(hash) == \E n \in Numbers : hash = HashB(n)

ParentHash(f, hash) ==
    LET n == NumberOf(hash)
    IN IF n = 1 THEN ""
       ELSE IF OnBranchB(hash) /\ n > f + 1 THEN HashB(n - 1)
       ELSE HashA(n - 1)

\* The logs of a block that come from the watched contract.
NumEvents(hash) ==
    IF OnBranchB(hash) THEN NumberOf(hash) % 2
    ELSE ((NumberOf(hash) + 1) % 2) + 1

\* types.ts:20-33, as saveBlockAndFetchEvents inserts it.
NewBlockProgress(f, hash) ==
    [ blockHash |-> hash, parentHash |-> ParentHash(f, hash),
      blockNumber |-> NumberOf(hash), numEvents |-> NumEvents(hash),
      numProcessedEvents |-> 0, lastProcessedEventIndex |-> -1,
      isComplete |-> FALSE, isPruned |-> FALSE ]

Local(hash) == hash /= "" /\ IsSome(localBlocks[hash])

Row(hash) == Val(localBlocks[hash])

\* The hashes of a block and of its local ancestors.
RECURSIVE ChainOf(_)
ChainOf(hash) ==
    IF ~Local(hash) THEN {} ELSE { hash } \cup ChainOf(Row(hash).parentHash)

\* The upstream's head advances by one block.
WatcherChainHead ==
    /\ reorg.pc = "idle"
    /\ sync.chainHeadBlockNumber < MaxNumber
    /\ LET n == sync.chainHeadBlockNumber + 1
       IN /\ sync' = UpdateSyncStatusChainHead(sync, UpstreamHash(fork, n), n,
                                               FALSE)
          /\ update' = UpdateCall("indexer", "updateSyncStatusChainHead", n,
                                  FALSE, sync)
    /\ UNCHANGED << reorg, fork, localBlocks, wstates, applied, stagedEver,
                    cli, notWatcher >>

\* The upstream replaces its blocks above block f by branch B.
UpstreamFork(f) ==
    /\ fork = 0
    /\ f < sync.chainHeadBlockNumber
    /\ fork' = f
    /\ UNCHANGED << sync, update, reorg, localBlocks, wstates, applied,
                    stagedEver, cli, notWatcher >>

\* saveBlockAndFetchEvents for the upstream's block at height n: nothing
\* changes when the block is there already; otherwise the block is
\* inserted and latestIndexed advanced.
SaveBlockAndFetchEvents(n) ==
    /\ reorg.pc = "idle"
    /\ n <= sync.chainHeadBlockNumber
    /\ LET hash == UpstreamHash(fork, n)
       IN /\ n = 1 \/ Local(ParentHash(fork, hash))
          /\ IF Local(hash)
             THEN UNCHANGED << localBlocks, sync, update >>
             ELSE /\ localBlocks' = [ localBlocks EXCEPT
                                        ![hash] = Some(NewBlockProgress(fork, hash)) ]
                  /\ sync' = UpdateSyncStatusIndexedBlock(sync, hash, n, FALSE)
                  /\ update' = UpdateCall("indexer",
                                          "updateSyncStatusIndexedBlock", n,
                                          FALSE, sync)
    /\ UNCHANGED << reorg, fork, wstates, applied, stagedEver, cli,
                    notWatcher >>

\* The other non-pruned local blocks at the height of a block.
Siblings(hash) ==
    { o \in WHashes : /\ Local(o) /\ o /= hash
                      /\ ~Row(o).isPruned
                      /\ Row(o).blockNumber = Row(hash).blockNumber }

\* A block the processor may take: saved, not complete, not pruned, its
\* parent complete.
Eligible(hash) ==
    /\ Local(hash)
    /\ ~Row(hash).isComplete
    /\ ~Row(hash).isPruned
    /\ \/ Row(hash).blockNumber = 1
       \/ /\ Local(Row(hash).parentHash)
          /\ Row(Row(hash).parentHash).isComplete

WStateRecord(kind, contract, blockHash, parent, data) ==
    [ kind |-> kind, contractAddress |-> contract, blockHash |-> blockHash,
      blockNumber |-> NumberOf(blockHash),
      cid |-> Cid(kind, contract, blockHash), parent |-> parent,
      data |-> data ]

\* The records created when the block is complete: the init at the
\* contract's starting block, and a diff_staged when the contract's state
\* changed in the block.
Materialized(recs, hash, numEvents) ==
    LET init == IF NumberOf(hash) = 1
                THEN << WStateRecord("init", CA, hash, None, << >>) >>
                ELSE << >>
        withInit == recs \o init
        l == LatestIndex(withInit, CA, { "init", "diff", "diff_staged" })
        staged == IF numEvents > 0
                  THEN << WStateRecord("diff_staged", CA, hash,
                             IF l = 0 THEN None ELSE Some(withInit[l].cid),
                             << "events", numEvents >>) >>
                  ELSE << >>
    IN withInit \o staged

Promoted_NewCid(r) ==
    [ r EXCEPT !.kind = "diff",
               !.cid = Cid("diff", r.contractAddress, r.blockHash) ]

\* The promotion of a diff_staged record: a change of kind only.
Promoted(r) == [ r EXCEPT !.kind = "diff" ]

\* The diff_staged records of the blocks up to the given height become
\* diffs.
Promote(recs, number) ==
    [ i \in 1..Len(recs) |->
        IF recs[i].kind = "diff_staged" /\ recs[i].blockNumber <= number
        THEN Promoted(recs[i]) ELSE recs[i] ]

\* The block's ancestor (or the block) at the given height.
AncestorAt(hash, number) ==
    CHOOSE h \in ChainOf(hash) : Row(h).blockNumber = number

\* The row after one more event, or after none for a block without events.
Progressed(row) ==
    LET n == IF row.numProcessedEvents < row.numEvents
             THEN row.numProcessedEvents + 1 ELSE row.numProcessedEvents
    IN [ row EXCEPT !.numProcessedEvents = n,
                    !.lastProcessedEventIndex = n - 1,
                    !.isComplete = (n = row.numEvents) ]

\* The processor's step on a block: the next event is applied and the
\* progress updated; with the last event (or with none to apply) the
\* block is complete, its state is materialized and the block PruneDepth
\* below becomes canonical.
ProcessBlock(hash) ==
    /\ reorg.pc = "idle"
    /\ Eligible(hash)
    /\ Siblings(hash) = {}
    /\ LET row == Row(hash)
           next == Progressed(row)
           index == row.lastProcessedEventIndex + 1
           target == row.blockNumber - PruneDepth
           canonical == IF next.isComplete /\ target >= 1
                        THEN UpdateSyncStatusCanonicalBlock(
                               sync, AncestorAt(hash, target), target, FALSE)
                        ELSE sync
       IN /\ localBlocks' = [ localBlocks EXCEPT ![hash] = Some(next) ]
          /\ applied' = IF row.numProcessedEvents < row.numEvents
                        THEN [ applied EXCEPT ![hash][index] = @ + 1 ]
                        ELSE applied
          /\ IF next.isComplete
             THEN /\ wstates' = Promote(Materialized(wstates, hash,
                                                     row.numEvents),
                                        canonical.latestCanonicalBlockNumber)
                  /\ stagedEver' = IF row.numEvents > 0
                                   THEN stagedEver \cup { << CA, hash >> }
                                   ELSE stagedEver
                  /\ sync' = canonical
                  /\ update' = IF target >= 1
                               THEN UpdateCall("processor",
                                      "updateSyncStatusCanonicalBlock", target,
                                      FALSE, sync)
                               ELSE update
             ELSE UNCHANGED << wstates, stagedEver, sync, update >>
    /\ UNCHANGED << reorg, fork, cli, notWatcher >>

\* The common ancestor of a block and the branch of its siblings: the
\* highest block of both chains.
CommonAncestor(hash, other) ==
    LET both == ChainOf(hash) \cap ChainOf(other)
    IN CHOOSE a \in both : \A b \in both : Row(b).blockNumber <= Row(a).blockNumber

\* The local blocks of the branch that is replaced.
Replaced(hash, ancestor) ==
    { o \in WHashes : /\ Local(o)
                      /\ Row(o).blockNumber > Row(ancestor).blockNumber
                      /\ o \notin ChainOf(hash) }

\* The reorg handler, called by the processor for a block whose height
\* holds another non-pruned block: the common ancestor is found and the
\* blocks of the replaced branch above it are marked pruned.
ReorgMarkPruned_TipOnly(blocks, hash, ancestor) ==
    [ o \in WHashes |->
        IF o \in Replaced(hash, ancestor) /\ o \in Siblings(hash)
        THEN Some([ Val(blocks[o]) EXCEPT !.isPruned = TRUE ])
        ELSE blocks[o] ]

ReorgMarkPruned(blocks, hash, ancestor) ==
    [ o \in WHashes |->
        IF o \in Replaced(hash, ancestor)
        THEN Some([ Val(blocks[o]) EXCEPT !.isPruned = TRUE ])
        ELSE blocks[o] ]

ReorgStart(hash) ==
    /\ reorg.pc = "idle"
    /\ Eligible(hash)
    /\ Siblings(hash) /= {}
    /\ LET ancestor == CommonAncestor(hash, CHOOSE o \in Siblings(hash) : TRUE)
       IN /\ localBlocks' = ReorgMarkPruned(localBlocks, hash, ancestor)
          /\ reorg' = [ pc |-> "delete", incoming |-> hash, hash |-> ancestor,
                        ancestor |-> Row(ancestor).blockNumber,
                        replaced |-> Replaced(hash, ancestor),
                        blocks |-> localBlocks, states |-> wstates ]
    /\ UNCHANGED << sync, update, fork, wstates, applied, stagedEver, cli,
                    notWatcher >>

\* The diff and diff_staged records above the ancestor are deleted.
Rewound(recs, ancestor) ==
    SelectSeq(recs, LAMBDA r : ~( /\ r.kind \in { "diff", "diff_staged" }
                                   /\ r.blockNumber > ancestor ))

ReorgDelete ==
    /\ reorg.pc = "delete"
    /\ wstates' = Rewound(wstates, reorg.ancestor)
    /\ reorg' = [ reorg EXCEPT !.pc = "rewindIndexed" ]
    /\ UNCHANGED << sync, update, fork, localBlocks, applied, stagedEver, cli,
                    notWatcher >>

ReorgRewindIndexed ==
    /\ reorg.pc = "rewindIndexed"
    /\ sync' = RewoundIndexed(sync, reorg.hash, reorg.ancestor)
    /\ update' = UpdateCall("reorg", "updateSyncStatusIndexedBlock",
                            reorg.ancestor, TRUE, sync)
    /\ reorg' = [ reorg EXCEPT !.pc = "rewindCanonical" ]
    /\ UNCHANGED << fork, localBlocks, wstates, applied, stagedEver, cli,
                    notWatcher >>

ReorgRewindCanonical ==
    /\ reorg.pc = "rewindCanonical"
    /\ sync' = RewoundCanonical(sync, reorg.hash, reorg.ancestor)
    /\ update' = UpdateCall("reorg", "updateSyncStatusCanonicalBlock",
                            Min(sync.latestCanonicalBlockNumber, reorg.ancestor),
                            TRUE, sync)
    /\ reorg' = [ reorg EXCEPT !.pc = "done" ]
    /\ UNCHANGED << fork, localBlocks, wstates, applied, stagedEver, cli,
                    notWatcher >>

\* Control returns to the processor.
ReorgReturn ==
    /\ reorg.pc = "done"
    /\ reorg' = NoReorg
    /\ UNCHANGED << sync, update, fork, localBlocks, wstates, applied,
                    stagedEver, cli, notWatcher >>

RecordsUpTo_DiffsOnly(recs, number) ==
    SelectSeq(recs, LAMBDA r : /\ r.kind = "diff"
                               /\ r.blockNumber < number)

\* The records a checkpoint at the given height is built on: those of the
\* non-pruned blocks up to that height.
RecordsUpTo(recs, number) ==
    SelectSeq(recs, LAMBDA r : /\ r.kind \in AllKinds
                               /\ r.blockNumber <= number
                               /\ ~Row(r.blockHash).isPruned)

NoCLI == [ contract |-> "", blockHash |-> "", before |-> << >> ]

\* `checkpoint create --address` without a block hash: a checkpoint of the
\* contract at the latest canonical block, unless the contract has one
\* there or has no state yet.
CreateCheckpointCLI(contract) ==
    /\ reorg.pc = "idle"
    /\ sync.latestCanonicalBlockNumber >= 1
    /\ LET hash == sync.latestCanonicalBlockHash
           number == sync.latestCanonicalBlockNumber
           base == RecordsUpTo(wstates, number)
       IN /\ LatestIndex(base, contract, AllKinds) /= 0
          /\ wstates' =
               IF \E i \in 1..Len(wstates) :
                     /\ wstates[i].kind = "checkpoint"
                     /\ wstates[i].contractAddress = contract
                     /\ wstates[i].blockHash = hash
               THEN wstates
               ELSE Append(wstates,
                           WStateRecord("checkpoint", contract, hash,
                                        CheckpointParent(base, contract),
                                        << "checkpoint", number >>))
          /\ cli' = [ contract |-> contract, blockHash |-> hash,
                      before |-> wstates ]
    /\ UNCHANGED << sync, update, reorg, fork, localBlocks, applied,
                    stagedEver, notWatcher >>

WatcherIdle ==
    /\ fork = 0
    /\ localBlocks = [ h \in WHashes |-> None ]
    /\ wstates = << >>
    /\ applied = [ h \in WHashes |-> [ i \in 0..2 |-> 0 ] ]
    /\ stagedEver = {}
    /\ cli = NoCLI

WatcherNext ==
    \/ WatcherChainHead
    \/ \E f \in Numbers : UpstreamFork(f)
    \/ \E n \in Numbers : SaveBlockAndFetchEvents(n)
    \/ \E hash \in WHashes : ProcessBlock(hash)
    \/ \E hash \in WHashes : ReorgStart(hash)
    \/ ReorgDelete
    \/ ReorgRewindIndexed
    \/ ReorgRewindCanonical
    \/ ReorgReturn
    \/ CreateCheckpointCLI(CA)

(***************************************************************************)
(* getIPLDsByBlock (part_000:172-223) against the state records of one     *)
(* endpoint.  The queries of the two contracts interleave; the endpoint    *)
(* writes no state record while a call is in progress.                     *)
(***************************************************************************)
MaxStates == 4

StateBlocks == { 1, 2 }

\* The blocks asked for: those with state records and one after them.
QueriedBlocks == StateBlocks \cup { 3 }

\* A row of the state table, as the state query returns it.
StateRow(id, contract, kind, number) ==
    [ id |-> id, contractAddress |-> contract, kind |-> kind,
      cid |-> RecordCid(id),
      block |-> [ hash |-> BlockHashAt(number), number |-> number ] ]

\* getState(blockHash, contractAddress, kind) for the block of the given
\* number: the contract's latest state at or below the block, of the kind
\* when one is given.  The latest is the one of the highest block and, in
\* a block, the one inserted last.
GetState(rows, number, contract, kind) ==
    LET found == { i \in 1..Len(rows) :
                     /\ rows[i].contractAddress = contract
                     /\ rows[i].block.number <= number
                     /\ (kind /= None => rows[i].kind = Val(kind)) }
    IN IF found = {} THEN None
       ELSE Some(rows[CHOOSE i \in found : \A j \in found :
                        \/ rows[j].block.number < rows[i].block.number
                        \/ /\ rows[j].block.number = rows[i].block.number
                           /\ j <= i])

InBlock_Found(state, blockHash) == IsSome(state)

\* Lines 197 and 212: the state found is of the block asked for.
InBlock(state, blockHash) ==
    IsSome(state) /\ Val(state).block.hash = blockHash

\* Line 186
CheckpointInBlock(state, blockHash) ==
    /\ IsSome(state)
    /\ Val(state).kind = "checkpoint"
    /\ Val(state).block.hash = blockHash

QueryTaskIdle == [ pc |-> "idle", getState |-> None, stateIPLDs |-> << >> ]

QueryIdleCall ==
    [ blockHash |-> "", number |-> 0,
      tasks |-> [ c \in Compared |-> QueryTaskIdle ] ]

NoQueryRunning ==
    \A c \in Compared : ipld.tasks[c].pc \in { "idle", "done" }

\* The endpoint's watcher writes a state record: blocks in order, an init
\* only as the first record of a contract, one diff and one checkpoint per
\* contract and block.
InsertState(contract, kind, later) ==
    /\ NoQueryRunning
    /\ Len(stateRows) < MaxStates
    /\ LET last == IF stateRows = << >> THEN 1
                   ELSE stateRows[Len(stateRows)].block.number
           number == IF later THEN last + 1 ELSE last
       IN /\ number \in StateBlocks
          /\ kind = "init" =>
               \A i \in 1..Len(stateRows) :
                 stateRows[i].contractAddress /= contract
          /\ \A i \in 1..Len(stateRows) :
               ~ /\ stateRows[i].contractAddress = contract
                 /\ stateRows[i].kind = kind
                 /\ stateRows[i].block.number = number
          /\ stateRows' = Append(stateRows,
                                 StateRow(Len(stateRows) + 1, contract, kind,
                                          number))
    /\ ipld' = QueryIdleCall
    /\ UNCHANGED notQuery

\* Lines 172-174: the call starts one chain of queries per contract.
GetIPLDsByBlock(number) ==
    /\ NoQueryRunning
    /\ ipld' = [ blockHash |-> BlockHashAt(number), number |-> number,
                 tasks |-> [ c \in Compared |->
                               [ QueryTaskIdle EXCEPT !.pc = "latest" ] ] ]
    /\ UNCHANGED << stateRows, notQuery >>

\* Lines 175-186, and 219-221 when the latest state is not a checkpoint of
\* the block.
QueryLatest(contract) ==
    /\ ipld.tasks[contract].pc = "latest"
    /\ LET getState == GetState(stateRows, ipld.number, contract, None)
       IN ipld' = [ ipld EXCEPT !.tasks[contract] =
                      IF CheckpointInBlock(getState, ipld.blockHash)
                      THEN [ pc |-> "init", getState |-> getState,
                             stateIPLDs |-> << >> ]
                      ELSE [ pc |-> "done", getState |-> getState,
                             stateIPLDs |-> << getState >> ] ]
    /\ UNCHANGED << stateRows, notQuery >>

\* Lines 187-200
QueryInit(contract) ==
    /\ ipld.tasks[contract].pc = "init"
    /\ LET getInitState ==
             GetState(stateRows, ipld.number, contract, Some("init"))
       IN ipld' = [ ipld EXCEPT
                      !.tasks[contract].pc = "diff",
                      !.tasks[contract].stateIPLDs =
                          IF InBlock(getInitState, ipld.blockHash)
                          THEN Append(@, getInitState) ELSE @ ]
    /\ UNCHANGED << stateRows, notQuery >>

\* Lines 202-221
QueryDiff(contract) ==
    /\ ipld.tasks[contract].pc = "diff"
    /\ LET getDiffState ==
             GetState(stateRows, ipld.number, contract, Some("diff"))
           withDiff == IF InBlock(getDiffState, ipld.blockHash)
                       THEN Append(ipld.tasks[contract].stateIPLDs,
                                   getDiffState)
                       ELSE ipld.tasks[contract].stateIPLDs
       IN ipld' = [ ipld EXCEPT
                      !.tasks[contract].pc = "done",
                      !.tasks[contract].stateIPLDs =
                          Append(withDiff, ipld.tasks[contract].getState) ]
    /\ UNCHANGED << stateRows, notQuery >>

QueryIdle ==
    /\ stateRows = << >>
    /\ ipld = QueryIdleCall

QueryNext ==
    \/ \E contract \in Compared, kind \in AllKinds, later \in BOOLEAN :
         InsertState(contract, kind, later)
    \/ \E number \in QueriedBlocks : GetIPLDsByBlock(number)
    \/ \E contract \in Compared : QueryLatest(contract)
    \/ \E contract \in Compared : QueryInit(contract)
    \/ \E contract \in Compared : QueryDiff(contract)

(***************************************************************************)
(* The codegen collectors: Database.addQuery (codegen database.ts:36-75)   *)
(* and Client.addQuery (part_001:32-58).  Objects are held in a heap, a    *)
(* params array being the list of the places of its Param objects, so that *)
(* an object shared by the caller and a collector is one place of the      *)
(* heap.  A name is the list of its characters.                            *)
(***************************************************************************)
MaxVisits == 2

Collectors == { "Database", "Client" }

\* The names of the contract's functions and state variables visited.
QueryNames ==
    { << "b", "a", "l" >>, << "B", "a", "l" >>, << "_", "b", "a", "l" >> }

\* The parameters of a visited function, each with its Solidity type; the
\* last list has a type without a GraphQL type.
ParamLists ==
    { << [ name |-> "owner", type |-> "address" ],
         [ name |-> "id", type |-> "uint256" ] >>,
      << [ name |-> "flag", type |-> "bool" ] >>,
      << [ name |-> "owner", type |-> "address" ],
         [ name |-> "f", type |-> "function" ] >> }

\* getGqlForSol(solType), absent for a type without a mapping.
GetGqlForSol(solType) ==
    CASE solType \in { "address", "string" } -> Some("String")
      [] solType = "uint256" -> Some("BigInt")
      [] solType = "bool" -> Some("Boolean")
      [] OTHER -> None

\* getTsForGql(gqlType)
GetTsForGql(gqlType) ==
    CASE gqlType = "String" -> Some("string")
      [] gqlType = "BigInt" -> Some("bigint")
      [] gqlType = "Boolean" -> Some("boolean")
      [] OTHER -> None

\* String.prototype.toUpperCase on one character.
ToUpperCase(ch) ==
    CASE ch = "b" -> "B"
      [] ch = "a" -> "A"
      [] ch = "l" -> "L"
      [] OTHER -> ch

\* name.charAt(i), zero-based: the empty string beyond the end.
CharAt(name, i) == IF i + 1 <= Len(name) THEN << name[i + 1] >> ELSE << >>

\* name.slice(i)
Slice(name, i) == IF i + 1 <= Len(name) THEN SubSeq(name, i + 1, Len(name)) ELSE << >>

Chars(s) ==
    CASE s = "get" -> << "g", "e", "t" >>
      [] s = "save" -> << "s", "a", "v", "e" >>
      [] s = "_get" -> << "_", "g", "e", "t" >>
      [] s = "_save" -> << "_", "s", "a", "v", "e" >>
      [] OTHER -> << s >>

\* database.ts:53-63 and part_001:44-46: the name with its first letter, or
\* its second after an underscore, in upper case.
CapitalizedName(name) ==
    IF CharAt(name, 0) = << "_" >>
    THEN [ c \in 1..Len(CharAt(name, 1)) |-> ToUpperCase(CharAt(name, 1)[c]) ]
           \o Slice(name, 2)
    ELSE [ c \in 1..Len(CharAt(name, 0)) |-> ToUpperCase(CharAt(name, 0)[c]) ]
           \o Slice(name, 1)

Underscored(name) == CharAt(name, 0) = << "_" >>

EntityName(name) ==
    (IF Underscored(name) THEN << "_" >> ELSE << >>) \o CapitalizedName(name)

GetQueryName(name) ==
    Chars(IF Underscored(name) THEN "_get" ELSE "get") \o CapitalizedName(name)

SaveQueryName(name) ==
    Chars(IF Underscored(name) THEN "_save" ELSE "save") \o CapitalizedName(name)

CloneDeep_Shared(heap, params) == [ heap |-> heap, params |-> params ]

\* _.cloneDeep(params): a new array of new objects with the same fields.
CloneDeep(heap, params) ==
    [ heap |-> heap \o [ i \in 1..Len(params) |-> heap[params[i]] ],
      params |-> [ i \in 1..Len(params) |-> Len(heap) + i ] ]

\* database.ts:65-72, part_001:48-55: the callback of params.map from the
\* i-th param on.  Each param's type is set in place; an assertion that
\* fails leaves the params before it changed.
RECURSIVE MapTypes(_, _, _)
MapTypes(heap, params, i) ==
    IF i > Len(params) THEN [ heap |-> heap, thrown |-> FALSE ]
    ELSE LET gqlParamType == GetGqlForSol(heap[params[i]].type)
             tsParamType == IF IsSome(gqlParamType)
                            THEN GetTsForGql(Val(gqlParamType)) ELSE None
         IN IF IsSome(gqlParamType) /\ IsSome(tsParamType)
            THEN MapTypes([ heap EXCEPT ![params[i]].type = Val(tsParamType) ],
                          params, i + 1)
            ELSE [ heap |-> heap, thrown |-> TRUE ]

\* The heap without the objects made by a call that has thrown, which
\* nothing refers to.
Reachable(heap, n) == SubSeq(heap, 1, n)

\* The query object a collector stores.
QueryObject(collector, name, params, returnParameters) ==
    IF collector = "Database"
    THEN [ name |-> name, entityName |-> EntityName(name),
           getQueryName |-> GetQueryName(name),
           saveQueryName |-> SaveQueryName(name),
           params |-> params, returnParameters |-> returnParameters ]
    ELSE [ name |-> name, getQueryName |-> GetQueryName(name),
           params |-> params ]

NoVisit == [ name |-> << >>, params |-> << >> ]

NoQueryCall == [ collector |-> "", name |-> << >>, outcome |-> "" ]

\* The caller visits a function or state variable and builds its params.
Visit(name, list) ==
    /\ codegen.visits < MaxVisits
    /\ codegen' = [ codegen EXCEPT
                      !.visits = @ + 1,
                      !.heap = @ \o list,
                      !.owned = @ \cup (Len(codegen.heap) + 1)..
                                        (Len(codegen.heap) + Len(list)),
                      !.visited = [ name |-> name,
                                    params |-> [ i \in 1..Len(list) |->
                                                   Len(codegen.heap) + i ] ] ]
    /\ UNCHANGED << queryCall, notCodegen >>

\* addQuery(name, params, returnParameters) of one collector, called with
\* the name and the params array of the visit.
AddQuery(collector) ==
    /\ codegen.visits > 0
    /\ LET name == codegen.visited.name
           queries == codegen.queries[collector]
       IN IF \E i \in 1..Len(queries) : queries[i].name = name
          THEN /\ queryCall' = [ collector |-> collector, name |-> name,
                                 outcome |-> "already added" ]
               /\ UNCHANGED codegen
          ELSE LET clone == CloneDeep(codegen.heap, codegen.visited.params)
                   mapped == MapTypes(clone.heap, clone.params, 1)
               IN /\ codegen' = [ codegen EXCEPT
                                    !.heap = IF mapped.thrown
                                             THEN Reachable(mapped.heap,
                                                            Len(codegen.heap))
                                             ELSE mapped.heap,
                                    !.queries[collector] =
                                       IF mapped.thrown THEN @
                                       ELSE Append(@,
                                              QueryObject(collector, name,
                                                          clone.params, name)) ]
                  /\ queryCall' = [ collector |-> collector, name |-> name,
                                    outcome |-> IF mapped.thrown
                                                THEN "assertion_error"
                                                ELSE "added" ]
    /\ UNCHANGED notCodegen

CodegenIdle ==
    /\ codegen = [ visits |-> 0, heap |-> << >>, owned |-> {},
                   visited |-> NoVisit,
                   queries |-> [ c \in Collectors |-> << >> ] ]
    /\ queryCall = NoQueryCall

CodegenNext ==
    \/ \E name \in QueryNames, list \in ParamLists : Visit(name, list)
    \/ \E collector \in Collectors : AddQuery(collector)

CacheIdle ==
    /\ cacheEnabled = FALSE
    /\ cache = << >>
    /\ chainLogs = << >>
    /\ tasks = [ t \in Tasks |-> TIdle ]
    /\ nStarted = 0
    /\ doneKeys = {}

BlocksIdle ==
    /\ upHead = 1
    /\ bcall = BIdle

RestIdle ==
    CombineIdle /\ CursorIdle /\ WatcherIdle /\ QueryIdle /\ CodegenIdle

InitBlocks == BlocksInit /\ CacheIdle /\ FillIdle /\ MetaIdle /\ RestIdle

SpecBlocks == InitBlocks /\ [][BlocksNext]_vars

InitCache == CacheInit /\ BlocksIdle /\ FillIdle /\ MetaIdle /\ RestIdle

SpecCache == InitCache /\ [][CacheNext]_vars

InitFill == FillInit /\ BlocksIdle /\ CacheIdle /\ MetaIdle /\ RestIdle

SpecFill == InitFill /\ [][FillNext]_vars

InitFillLate == FillInitLate /\ BlocksIdle /\ CacheIdle /\ MetaIdle /\ RestIdle

SpecFillLate == InitFillLate /\ [][FillNext]_vars

InitMeta == MetaIdle /\ BlocksIdle /\ CacheIdle /\ FillIdle /\ RestIdle

SpecMeta == InitMeta /\ [][MetaNext]_vars

FirstIdle ==
    /\ BlocksIdle /\ CacheIdle /\ FillIdle /\ MetaIdle /\ QueryIdle
    /\ CodegenIdle

InitCombine == CombineIdle /\ FirstIdle /\ CursorIdle /\ WatcherIdle

InitCursor == CursorIdle /\ FirstIdle /\ CombineIdle /\ WatcherIdle

SpecCursor == InitCursor /\ [][CursorNext]_vars

InitWatcher == WatcherIdle /\ CursorIdle /\ FirstIdle /\ CombineIdle

SpecWatcher == InitWatcher /\ [][WatcherNext]_vars

SpecCombine == InitCombine /\ [][CombineNext]_vars

InitQuery ==
    /\ QueryIdle /\ BlocksIdle /\ CacheIdle /\ FillIdle /\ MetaIdle
    /\ CombineIdle /\ CursorIdle /\ WatcherIdle /\ CodegenIdle

SpecQuery == InitQuery /\ [][QueryNext]_vars

InitCodegen ==
    /\ CodegenIdle /\ BlocksIdle /\ CacheIdle /\ FillIdle /\ MetaIdle
    /\ CombineIdle /\ CursorIdle /\ WatcherIdle /\ QueryIdle

SpecCodegen == InitCodegen /\ [][CodegenNext]_vars

(***************************************************************************)
(* The claims.                                                             *)
(***************************************************************************)
Calls == { t \in Tasks : tasks[t].pc /= "idle" }

\* One step of task t through _getCachedOrFetch with a cache configured:
\* a lookup that finds the key returns the stored value, fetches nothing and
\* leaves the cache alone; a lookup that misses goes on to the fetch; the
\* fetched result is stored under the key and is the value returned.
C1_Step(t) ==
    /\ (tasks[t].pc = "get" /\ tasks[t].key \in DOMAIN cache
                            /\ tasks'[t] /= tasks[t]) =>
          /\ tasks'[t].pc = "done"
          /\ tasks'[t].result = Some(cache[tasks[t].key])
          /\ tasks'[t].nFetch = 0
          /\ cache' = cache
    /\ (tasks[t].pc = "get" /\ tasks[t].key \notin DOMAIN cache
                            /\ tasks'[t] /= tasks[t]) =>
          /\ tasks'[t].pc = "fetch"
          /\ cache' = cache
    /\ (tasks[t].pc = "fetch" /\ tasks'[t].pc \notin { "fetch", "failed" }) =>
          /\ tasks'[t].pc = "put"
          /\ tasks'[t].nFetch = 1
    /\ (tasks[t].pc = "put" /\ tasks'[t] /= tasks[t]) =>
          /\ tasks'[t].pc = "done"
          /\ tasks[t].key \in DOMAIN cache'
          /\ cache'[tasks[t].key] = Val(tasks[t].result)
          /\ tasks'[t].result = tasks[t].result

\* What holds of every call with a cache configured: a completed call
\* fetched once on a miss and never on a hit, and left the key in the cache;
\* a call started after a call for its key completed fetches nothing.
C1_State ==
    \A t \in Calls :
        /\ tasks[t].pc = "done" =>
              /\ tasks[t].key \in DOMAIN cache
              /\ tasks[t].nFetch = (IF tasks[t].hit THEN 0 ELSE 1)
        /\ tasks[t].afterDone =>
              /\ tasks[t].nFetch = 0
              /\ tasks[t].pc \in { "get", "done" }
              /\ tasks[t].pc = "done" => tasks[t].hit

\* C1: with a cache configured, _getCachedOrFetch returns the cached value
\* without fetching when the cache holds the key, and otherwise fetches
\* exactly once, stores the result under the key and returns it; after a
\* completed call the cache holds the key, and every later call with the
\* key is served from the cache without an upstream call.
C1_CachedOrFetch ==
    /\ [](cacheEnabled => C1_State)
    /\ [][cacheEnabled => \A t \in Tasks : C1_Step(t)]_vars

\* C1's case: a call that started after a call for its key had completed
\* has returned from the cache.
C1_Witness ==
    \E t \in Calls :
        /\ cacheEnabled
        /\ tasks[t].pc = "done"
        /\ tasks[t].afterDone
        /\ tasks[t].hit

BlockAnswered(n) ==
    /\ IsSome(bcall.resp)
    /\ Val(bcall.resp) = RpcBlock(n)

\* C2: getBlocks returns an empty node list and raises nothing when upstream
\* fails with the future-epoch server error or answers null; when upstream
\* returns a block, the node list is the one node of that block (its
\* number in decimal, its hash, its parent's hash, its timestamp).
C2_GetBlocksMissingBlock ==
    (bcall.pc = "done" /\ bcall.method = "getBlocks" /\ IsSome(bcall.resp)) =>
        /\ (Val(bcall.resp) = FutureEpochError \/ Val(bcall.resp) = RpcNull) =>
              /\ bcall.outcome = "returned"
              /\ bcall.nodes = << >>
              /\ bcall.thrown = None
        /\ \A n \in 1..MaxHead :
              BlockAnswered(n) =>
                  /\ bcall.outcome = "returned"
                  /\ Len(bcall.nodes) = 1
                  /\ bcall.nodes[1].blockNumber = DecStr(n)
                  /\ bcall.nodes[1].blockHash = BlockHashAt(n)
                  /\ bcall.nodes[1].parentHash = BlockHashAt(n - 1)
                  /\ bcall.nodes[1].timestamp = DecStr(n + 10)

\* C2's case: a block beyond the upstream head was asked for by number,
\* upstream raised the future-epoch error, and getBlocks has returned.
C2_Witness ==
    /\ bcall.pc = "done"
    /\ bcall.method = "getBlocks"
    /\ IsSome(bcall.blockNumber)
    /\ Val(bcall.blockNumber) > upHead
    /\ bcall.resp = Some(FutureEpochError)
    /\ bcall.outcome = "returned"

\* The lower-case forms of the addresses a getLogs call listed.
ListedAddresses(call) ==
    { ToLowerCase(a) : a \in Range(Val(call.input.addresses)) }

\* C9: getLogs called with a non-empty addresses list returns only logs
\* whose emitting address is in the list (none when no listed address
\* emitted a log in the block).
C9_LogsOnlyFromListed ==
    \A t \in Calls :
        ( /\ tasks[t].pc = "done"
          /\ tasks[t].method = "getLogs"
          /\ IsSome(tasks[t].input.addresses)
          /\ Val(tasks[t].input.addresses) /= << >> ) =>
            \A i \in 1..Len(Val(tasks[t].out)) :
                Val(tasks[t].out)[i].account \in ListedAddresses(tasks[t])

(***************************************************************************)
(* fill-state.                                                             *)
(***************************************************************************)
InRange(h) == argv.startBlock <= h /\ h <= argv.endBlock

RangeHeights == { h \in Heights : InRange(h) }

StartingBlockOf(c) ==
    LET i == CHOOSE j \in 1..Len(config.watched) : config.watched[j].address = c
    IN config.watched[i].startingBlock

WatchedAddresses == { config.watched[i].address : i \in 1..Len(config.watched) }

RecordsOf(kinds, c) ==
    { i \in 1..Len(states) : /\ states[i].kind \in kinds
                             /\ states[i].contractAddress = c }

RecordsAt(kinds, c, h) ==
    { i \in RecordsOf(kinds, c) : states[i].blockNumber = h }

LogCalls(names) == { i \in 1..Len(run.log) : run.log[i].call \in names }

\* A state record existed in the range when this run began.
ExistingAtStart ==
    \E i \in 1..Len(run.statesAtStart) : InRange(run.statesAtStart[i].blockNumber)

\* C3: when a state record exists in [startBlock, endBlock] as the run
\* begins, the run ends in exit code 1 once it is past the check of the
\* existing states, and it has called nothing: no createInit,
\* updateSubgraphState, dumpSubgraphState, processCheckpoint, status update
\* or push, and the records and the status row are those it found.
C3_ExistingStatesAbort ==
    (ExistingAtStart /\ fill.pc \notin { "start", "existing" }) =>
       /\ fill.pc = "exit"
       /\ fill.exitCode = Some(1)
       /\ run.log = << >>
       /\ states = run.statesAtStart
       /\ syncStatus = run.statusAtStart
       /\ subgraph = << >>

C3_Witness ==
    /\ ExistingAtStart
    /\ fill.pc = "exit"
    /\ fill.exitCode = Some(1)

NonPrunedAt(h) == Len(GetBlocksAtHeight(blockRows, h, FALSE))

InsideIteration ==
    fill.pc \in { "createInit", "fetch", "hooksStatus", "checkpoint",
                  "checkpointStatus", "ipfsGet", "push", "ipfsStatus" }

\* C10: fillState is inside the iteration of a height only when that height
\* holds exactly one non-pruned block; every call it has made in the run
\* was for such a height; a height read with none or several non-pruned
\* blocks ends the run with exit code 1; and every state record lies at a
\* height with exactly one non-pruned block.
C10_OneCanonicalBlock ==
    /\ InsideIteration =>
         /\ NonPrunedAt(fill.blockNumber) = 1
         /\ fill.blockHash =
              GetBlocksAtHeight(blockRows, fill.blockNumber, FALSE)[1].blockHash
    /\ \A i \in 1..Len(run.log) : NonPrunedAt(run.log[i].height) = 1
    /\ \A i \in 1..Len(states) :
         /\ NonPrunedAt(states[i].blockNumber) = 1
         /\ states[i].blockHash =
              GetBlocksAtHeight(blockRows, states[i].blockNumber,
                                FALSE)[1].blockHash
    /\ ( /\ fill.pc \notin { "start", "existing", "loop" }
         /\ fill.blockNumber \in Heights
         /\ blockRows[fill.blockNumber] /= "unknown"
         /\ NonPrunedAt(fill.blockNumber) /= 1 ) =>
         /\ fill.pc = "exit"
         /\ fill.exitCode = Some(1)
         /\ LogCalls({ "createInit", "dumpSubgraphState", "processCheckpoint" })
              \cap { i \in 1..Len(run.log) : run.log[i].height = fill.blockNumber }
              = {}

C10_Witness ==
    /\ fill.pc = "exit"
    /\ fill.blockNumber \in Heights
    /\ fill.blockNumber > argv.startBlock
    /\ NonPrunedAt(fill.blockNumber) = 2
    /\ Len(states) > Len(run.statesAtStart)

\* C5: a contract has at most one init record, and it lies at the
\* contract's starting block; a run that went through a range holding the
\* starting block leaves exactly one init record of the contract, and it
\* called createInit once at every height of the range.
C5_OneInit ==
    /\ \A c \in WatchedAddresses :
         /\ Cardinality(RecordsOf({ "init" }, c)) <= 1
         /\ \A i \in RecordsOf({ "init" }, c) :
              states[i].blockNumber = StartingBlockOf(c)
    /\ fill.pc = "done" =>
         /\ \A c \in WatchedAddresses :
              InRange(StartingBlockOf(c)) =>
                Cardinality(RecordsOf({ "init" }, c)) = 1
         /\ \A h \in RangeHeights :
              Cardinality({ i \in LogCalls({ "createInit" }) :
                              run.log[i].height = h }) = 1

C5_Witness ==
    /\ fill.pc = "done"
    /\ argv.startBlock < argv.endBlock
    /\ InRange(StartingBlockOf(CA))
    /\ Cardinality(LogCalls({ "createInit" })) >= 2
    /\ Cardinality(RecordsOf({ "init" }, CA)) = 1

\* The entities fillState queries for a contract.
QueriedEntities(c) ==
    UNION { Range(fill.entitiesMap[i].entities) :
              i \in { j \in 1..Len(fill.entitiesMap) :
                        fill.entitiesMap[j].address = c } }

ChangedAt(c, h) ==
    \E e \in QueriedEntities(c) :
       /\ IsSome(graphRows[h][e])
       /\ Val(graphRows[h][e]) /= << >>

\* A run over a range without states, from the starting block of the first
\* contract, has gone through the range.
FilledFromStartingBlock ==
    /\ fill.pc = "done"
    /\ ~ExistingAtStart
    /\ argv.startBlock = StartingBlockOf(CA)

InitAndDiffs ==
    /\ Cardinality(RecordsAt({ "init" }, CA, argv.startBlock)) = 1
    /\ \A h \in RangeHeights :
         Cardinality(RecordsAt({ "diff" }, CA, h)) =
           (IF ChangedAt(CA, h) THEN 1 ELSE 0)

\* The heights at which the cadence falls due for a contract whose init is
\* at the start of the range.
CadenceDue(h) ==
    /\ h > argv.startBlock
    /\ (h - argv.startBlock) % config.checkpointInterval = 0

\* C4, as stated: the run leaves an init at the start, a diff of the
\* contract at exactly the blocks where one of its entities changed, and a
\* checkpoint at the end of the range.
C4_CheckpointAtEnd ==
    FilledFromStartingBlock =>
       /\ InitAndDiffs
       /\ RecordsAt({ "checkpoint" }, CA, argv.endBlock) /= {}

\* C4, amended: the run leaves an init at the start, a diff of the contract
\* at exactly the blocks where one of the entities queried for it changed,
\* and a checkpoint at exactly the blocks of the range where the configured
\* cadence falls due, which need not include the end.
C4_FillProduces ==
    FilledFromStartingBlock =>
       /\ InitAndDiffs
       /\ \A h \in RangeHeights :
            Cardinality(RecordsAt({ "checkpoint" }, CA, h)) =
              (IF CadenceDue(h) THEN 1 ELSE 0)

C4_Witness ==
    /\ FilledFromStartingBlock
    /\ argv.startBlock < argv.endBlock
    /\ RecordsOf({ "diff" }, CA) /= {}
    /\ \E h \in RangeHeights : RecordsAt({ "diff" }, CA, h) = {}
    /\ RecordsAt({ "checkpoint" }, CA, argv.endBlock) /= {}

(***************************************************************************)
(* checkIPLDMetaData.                                                      *)
(***************************************************************************)
Fed == IsSome(metaCall.fed)

FedRecord == Val(metaCall.fed)

FedParent == FedRecord.data.meta.parent

\* The record is not one of the two the map holds for its contract, so the
\* check is not skipped.
FreshCid == FedRecord.cid \notin { metaCall.before.diff, metaCall.before.checkpoint }

TrackedParents == { metaCall.before.diff, metaCall.before.checkpoint }

ParentReported == "parent" \in metaCall.result.diff

MetaAsWritten ==
    FedRecord.data.meta =
      MetaOf(FedRecord.contractAddress, FedRecord.kind, FedParent,
             FedRecord.block.number, "none")

\* Every record of a chain that obeys the parenting rule gets an empty diff.
ValidChainAccepted ==
    (Fed /\ FreshCid /\ chain[FedRecord.contractAddress].ok /\ MetaAsWritten) =>
       metaCall.result = Returned({})

\* C6, as stated: a valid chain gets empty diffs, and once a record of the
\* contract has been seen, a record, fed for the first time, whose parent is
\* neither of the two CIDs kept for the contract gets a non-empty diff.
C6_AnyPreviousRecord ==
    /\ ValidChainAccepted
    /\ ( /\ Fed /\ FreshCid
         /\ metaCall.chainBefore.count >= 1
         /\ FedParent \notin TrackedParents ) =>
         /\ metaCall.result.returned = "string"
         /\ metaCall.result.diff /= {}

\* C6, amended: a valid chain gets empty diffs; a record whose parent is
\* neither of the two CIDs kept for the contract gets a diff naming the
\* parent once an init or a diff of the contract has been seen and unless
\* the record is itself one of the two kept; while only checkpoints have
\* been seen no parent is reported, and a record that is one of the two
\* kept is not checked at all.
C6_ParentChecked ==
    /\ ValidChainAccepted
    /\ ( /\ Fed /\ FreshCid
         /\ metaCall.before.diff /= ""
         /\ FedParent \notin TrackedParents ) => ParentReported
    /\ (Fed /\ FreshCid /\ metaCall.before.diff = "") => ~ParentReported
    /\ (Fed /\ ~FreshCid) => metaCall.result = ReturnedUndefined

C6_Witness ==
    /\ Fed /\ FreshCid
    /\ metaCall.chainBefore.count >= 2
    /\ metaCall.chainBefore.ok
    /\ metaCall.before.diff /= ""
    /\ FedParent \notin TrackedParents
    /\ ParentReported

PrevDiff == metaCall.chainBefore.lastDiff

PrevCheckpoint == metaCall.chainBefore.lastCheckpoint

\* A checkpoint is fed when a diff and a checkpoint of its contract were.
CheckpointAfterBoth ==
    /\ Fed /\ FreshCid
    /\ FedRecord.kind = "checkpoint"
    /\ PrevDiff.idx > 0
    /\ PrevCheckpoint.idx > 0

OlderOfBoth == IF PrevDiff.idx < PrevCheckpoint.idx THEN PrevDiff ELSE PrevCheckpoint

NewerOfBoth == IF PrevDiff.idx < PrevCheckpoint.idx THEN PrevCheckpoint ELSE PrevDiff

\* C7, as stated: a checkpoint whose parent is the older of the previous
\* diff and the previous checkpoint gets a mismatch on the parent.
C7_OlderParentReported ==
    (CheckpointAfterBoth /\ FedParent = OlderOfBoth.cid) => ParentReported

\* C7, amended: a checkpoint whose parent is the newer of the previous diff
\* and the previous checkpoint is accepted; one whose parent is the previous
\* checkpoint while the diff is newer, or is neither of the two, gets a
\* mismatch; one whose parent is the previous diff while the checkpoint is
\* newer is accepted all the same.
C7_CheckpointParent ==
    CheckpointAfterBoth =>
       /\ FedParent = NewerOfBoth.cid => ~ParentReported
       /\ ( /\ PrevCheckpoint.idx < PrevDiff.idx
            /\ FedParent = PrevCheckpoint.cid ) => ParentReported
       /\ FedParent \notin { PrevDiff.cid, PrevCheckpoint.cid } => ParentReported
       /\ ( /\ PrevDiff.idx < PrevCheckpoint.idx
            /\ FedParent = PrevDiff.cid ) => ~ParentReported

C7_Witness ==
    /\ CheckpointAfterBoth
    /\ PrevDiff.idx < PrevCheckpoint.idx
    /\ FedParent = PrevDiff.cid
    /\ metaCall.result = Returned({})

\* A diff is fed right after a checkpoint of its contract.
DiffAfterCheckpoint ==
    /\ Fed /\ FreshCid
    /\ FedRecord.kind = "diff"
    /\ metaCall.chainBefore.lastKind = "checkpoint"

\* C8, as stated: the diff is accepted if and only if its parent is the one
\* the rule gives: the latest diff, or the checkpoint when the checkpoint
\* is in the block of that diff.
C8_RuleObeyed ==
    DiffAfterCheckpoint =>
       (~ParentReported <=>
          FedParent \in RuleParents(metaCall.chainBefore, "diff",
                                    ParentCandidates("diff", nFed - 1)))

\* C8, amended: the diff is accepted if and only if its parent is the
\* latest diff or the checkpoint, whatever their blocks; while no init or
\* diff has been seen it is accepted with any parent.
C8_DiffAfterCheckpoint ==
    DiffAfterCheckpoint =>
       /\ metaCall.before.checkpoint = PrevCheckpoint.cid
       /\ metaCall.before.diff = PrevDiff.cid
       /\ IF PrevDiff.idx = 0
          THEN ~ParentReported
          ELSE ~ParentReported <=>
                 FedParent \in { PrevDiff.cid, PrevCheckpoint.cid }

C8_Witness ==
    /\ DiffAfterCheckpoint
    /\ PrevDiff.idx > 0
    /\ PrevCheckpoint.block > PrevDiff.block
    /\ FedParent = PrevCheckpoint.cid
    /\ metaCall.result = Returned({})

(***************************************************************************)
(* getStorageAt.                                                           *)
(***************************************************************************)
StorageCalls == { t \in Calls : tasks[t].method = "getStorageAt" }

\* The digits of a slot without its leading zeros: two slots are equal
\* after padding when these are equal.
RECURSIVE StripZeros(_)
StripZeros(digits) ==
    IF digits /= << >> /\ Head(digits) = "0" THEN StripZeros(Tail(digits))
    ELSE digits

SameStorage(t, u) ==
    /\ tasks[t].input.blockHash = tasks[u].input.blockHash
    /\ tasks[t].input.contract = tasks[u].input.contract
    /\ StripZeros(tasks[t].input.slot) = StripZeros(tasks[u].input.slot)

\* C17: the slot of the cache key is the slot given, left-padded with zeros
\* to 32 bytes, and so is the slot sent upstream; two getStorageAt calls
\* for the same block and contract whose slots are equal after padding have
\* the same cache key and, once both have returned, the same value.
C17_PaddedSlot ==
    /\ \A t \in StorageCalls :
         LET slot == Val(tasks[t].key.vars.slot)
         IN /\ slot = "0x" \o Concat(Zeros(64 - Len(tasks[t].input.slot)))
                           \o Concat(tasks[t].input.slot)
            /\ \A i \in 1..Len(tasks[t].upstream) :
                 tasks[t].upstream[i].arg = slot
    /\ \A t \in StorageCalls, u \in StorageCalls :
         SameStorage(t, u) =>
           /\ tasks[t].key = tasks[u].key
           /\ (tasks[t].pc = "done" /\ tasks[u].pc = "done") =>
                tasks[t].out = tasks[u].out

C17_Witness ==
    \E t \in StorageCalls, u \in StorageCalls :
       /\ tasks[t].input.slot = << "1" >>
       /\ tasks[u].input.slot = << "0", "1" >>
       /\ tasks[t].pc = "done" /\ tasks[u].pc = "done"
       /\ tasks[u].hit
       /\ tasks[t].out = Some(GetStorageAtOutput("0x07"))
       /\ tasks[u].out = tasks[t].out

(***************************************************************************)
(* combineIPLDState.                                                       *)
(***************************************************************************)
\* The arrays of an input, each as the record's index and the array's path.
ArraysOf(contractIPLDs) ==
    { rp \in (1..Len(contractIPLDs)) \X Paths :
        /\ contractIPLDs[rp[1]] /= None
        /\ IsSome(Val(contractIPLDs[rp[1]])[rp[2]]) }

ArrayAt(contractIPLDs, rp) == Val(Val(contractIPLDs[rp[1]])[rp[2]])

SwapAt(arr, i) ==
    [ k \in 1..Len(arr) |->
        IF k = i THEN arr[i + 1] ELSE IF k = i + 1 THEN arr[i] ELSE arr[k] ]

\* The inputs that differ from the given one by exchanging two neighbours
\* in one array; every permutation is a sequence of such exchanges.
Permuted(contractIPLDs) ==
    UNION { { [ contractIPLDs EXCEPT
                  ![rp[1]] = Some([ Val(contractIPLDs[rp[1]]) EXCEPT
                      ![rp[2]] = Some(SwapAt(ArrayAt(contractIPLDs, rp), i)) ]) ] :
              i \in 1..(Len(ArrayAt(contractIPLDs, rp)) - 1) } :
            rp \in ArraysOf(contractIPLDs) }

SortedById(arr) ==
    \A i \in 1..(Len(arr) - 1) : LocaleCompare(arr[i].id, arr[i + 1].id) <= 0

\* Every id is non-empty and localeCompare tells any two ids of an array
\* apart.
OrderedIds(contractIPLDs) ==
    \A rp \in ArraysOf(contractIPLDs) :
       LET arr == ArrayAt(contractIPLDs, rp)
       IN \A i \in 1..Len(arr) :
             /\ arr[i].id /= ""
             /\ \A j \in 1..Len(arr) :
                  i /= j => LocaleCompare(arr[i].id, arr[j].id) /= 0

HeldOnce(contractIPLDs, p) ==
    Cardinality({ rp \in ArraysOf(contractIPLDs) : rp[2] = p }) = 1

SameWhenPermuted ==
    \A other \in Permuted(combine.contractIPLDs) :
       CombineIPLDState(other) = Val(combine.result)

\* C18 as stated: for records whose arrays hold distinct ids, permuting an
\* array leaves the combined state the same, and every array of the
\* combined state is sorted by id and no longer than DEFAULT_LIMIT.
C18_OrderInvariant ==
    combine.pc = "done" =>
      /\ SameWhenPermuted
      /\ \A p \in Paths :
           IsSome(Val(combine.result)[p]) =>
             /\ SortedById(Val(Val(combine.result)[p]))
             /\ Len(Val(Val(combine.result)[p])) <= DEFAULT_LIMIT

\* C18: for records whose arrays hold non-empty ids that localeCompare
\* tells apart, permuting an array leaves the combined state the same;
\* every array of the combined state is no longer than DEFAULT_LIMIT, and
\* an array that only one of the records holds is sorted by id.
C18_OrderedIdsInvariant ==
    (combine.pc = "done" /\ OrderedIds(combine.contractIPLDs)) =>
      /\ SameWhenPermuted
      /\ \A p \in Paths :
           IsSome(Val(combine.result)[p]) =>
             /\ Len(Val(Val(combine.result)[p])) <= DEFAULT_LIMIT
             /\ HeldOnce(combine.contractIPLDs, p) =>
                  SortedById(Val(Val(combine.result)[p]))

C18_Witness ==
    /\ combine.pc = "done"
    /\ OrderedIds(combine.contractIPLDs)
    /\ \E rp \in ArraysOf(combine.contractIPLDs) :
          /\ HeldOnce(combine.contractIPLDs, rp[2])
          /\ Len(ArrayAt(combine.contractIPLDs, rp)) > DEFAULT_LIMIT
          /\ ~SortedById(ArrayAt(combine.contractIPLDs, rp))
          /\ ArrayAt(combine.contractIPLDs, rp)[1].id = "B"
          /\ Val(Val(combine.result)[rp[2]])[1].id = "a"
          /\ Len(Val(Val(combine.result)[rp[2]])) = DEFAULT_LIMIT

(***************************************************************************)
(* The order of fillState's steps.                                         *)
(***************************************************************************)
\* The calls that may directly follow a call at the same height.
StepsAfter(call) ==
    CASE call = "createInit" -> { "updateSubgraphState", "dumpSubgraphState" }
      [] call = "updateSubgraphState" ->
           { "updateSubgraphState", "dumpSubgraphState" }
      [] call = "dumpSubgraphState" -> { "updateIPLDStatusHooksBlock" }
      [] call = "updateIPLDStatusHooksBlock" -> { "processCheckpoint" }
      [] call = "processCheckpoint" -> { "updateIPLDStatusCheckpointBlock" }
      [] call = "updateIPLDStatusCheckpointBlock" ->
           { "pushToIPFS", "updateIPLDStatusIPFSBlock" }
      [] call = "pushToIPFS" -> { "pushToIPFS", "updateIPLDStatusIPFSBlock" }
      [] OTHER -> {}

\* The last call of an iteration.
LastStep ==
    IF config.isIPFSConfigured THEN "updateIPLDStatusIPFSBlock"
    ELSE "updateIPLDStatusCheckpointBlock"

\* C19: within a run the heights are handled in ascending order, one after
\* the other from startBlock; at each height the calls are made in the
\* order createInit, the updateSubgraphState calls, dumpSubgraphState, the
\* hooks status update, processCheckpoint, the checkpoint status update
\* and the IPFS pushes, and the first call of the next height follows the
\* last call of the height before.
C19_StepOrder ==
    /\ run.log /= << >> =>
         /\ run.log[1].call = "createInit"
         /\ run.log[1].height = argv.startBlock
    /\ \A i \in 1..(Len(run.log) - 1) :
         \/ /\ run.log[i + 1].height = run.log[i].height
            /\ run.log[i + 1].call \in StepsAfter(run.log[i].call)
         \/ /\ run.log[i + 1].height = run.log[i].height + 1
            /\ run.log[i].call = LastStep
            /\ run.log[i + 1].call = "createInit"

C19_Witness ==
    /\ fill.pc = "done"
    /\ \E i \in 1..Len(run.log), j \in 1..Len(run.log), k \in 1..Len(run.log) :
          /\ i < j /\ j < k
          /\ run.log[i].call = "updateSubgraphState"
          /\ run.log[j].call = "pushToIPFS"
          /\ run.log[j].height = run.log[i].height
          /\ run.log[k].call = "createInit"
          /\ run.log[k].height = run.log[i].height + 1

(***************************************************************************)
(* The state sync status during fillState.                                 *)
(***************************************************************************)
StatusFields ==
    { "latestIndexedBlockNumber", "latestCheckpointBlockNumber",
      "latestIPFSBlockNumber" }

\* The block numbers passed to one updater, in the order of the calls.
Passed(name) ==
    LET calls == SelectSeq(run.log, LAMBDA e : e.call = name)
    IN [ i \in 1..Len(calls) |-> calls[i].height ]

StrictlyIncreasing(numbers) ==
    \A i \in 1..(Len(numbers) - 1) : numbers[i] < numbers[i + 1]

\* C20: no step of fillState decreases a field of the state sync status;
\* the block numbers passed to the hooks status update, and those passed
\* to the checkpoint status update, are strictly increasing; the
\* checkpoint status is never above the hooks (indexed) status.
C20_StatusMonotonic ==
    /\ [](/\ StrictlyIncreasing(Passed("updateIPLDStatusHooksBlock"))
          /\ StrictlyIncreasing(Passed("updateIPLDStatusCheckpointBlock"))
          /\ syncStatus.latestCheckpointBlockNumber
               <= syncStatus.latestIndexedBlockNumber)
    /\ [][\A f \in StatusFields : syncStatus'[f] >= syncStatus[f]]_vars

C20_Witness ==
    /\ fill.pc = "done"
    /\ Passed("updateIPLDStatusHooksBlock") = << 1, 2 >>
    /\ Passed("updateIPLDStatusCheckpointBlock") = << 1, 2 >>
    /\ run.statusAtStart.latestIndexedBlockNumber = 0
    /\ syncStatus.latestIndexedBlockNumber = 2
    /\ syncStatus.latestCheckpointBlockNumber = 2

(***************************************************************************)
(* The sync cursors.                                                       *)
(***************************************************************************)
CursorsOrdered(s) ==
    /\ s.latestCanonicalBlockNumber <= s.latestIndexedBlockNumber
    /\ s.latestIndexedBlockNumber <= s.chainHeadBlockNumber

\* C11: whatever updaters have been called, and unless the reorg handler
\* is in the middle of its forced updates, latestCanonical is at most
\* latestIndexed, which is at most chainHead.
C11_CursorsOrdered == reorg.pc = "idle" => CursorsOrdered(sync)

C11_Witness ==
    /\ reorg.pc = "idle"
    /\ update.caller = "reorg"
    /\ update.before.latestCanonicalBlockNumber = 2
    /\ sync.latestCanonicalBlockNumber = 1
    /\ sync.latestIndexedBlockNumber = 1
    /\ sync.chainHeadBlockNumber = 3

NumberField(updater) ==
    CASE updater = "updateSyncStatusChainHead" -> "chainHeadBlockNumber"
      [] updater = "updateSyncStatusIndexedBlock" -> "latestIndexedBlockNumber"
      [] updater = "updateSyncStatusCanonicalBlock" ->
           "latestCanonicalBlockNumber"

NumberFields == { NumberField(u) : u \in Updaters }

\* C12: a call without force changes only its own cursor, and only to a
\* number strictly greater than the current one (for latestIndexed, not
\* beyond chainHead); a cursor decreases only under force, and only the
\* reorg handler calls with force.
C12_GuardedUpdate ==
    [][ /\ ~update'.force =>
             \A f \in NumberFields :
                \/ sync'[f] = sync[f]
                \/ /\ f = NumberField(update'.updater)
                   /\ sync'[f] = update'.blockNumber
                   /\ sync'[f] > sync[f]
                   /\ f = "latestIndexedBlockNumber" =>
                        sync'[f] <= sync.chainHeadBlockNumber
        /\ \A f \in NumberFields : sync'[f] < sync[f] => update'.force
        /\ update'.force => update'.caller = "reorg" ]_cursorVars

C12_Witness ==
    /\ update.caller = "indexer"
    /\ ~update.force
    /\ update.updater = "updateSyncStatusIndexedBlock"
    /\ update.blockNumber = 3
    /\ update.before.chainHeadBlockNumber = 2
    /\ update.before.latestIndexedBlockNumber = 1
    /\ sync = update.before

(***************************************************************************)
(* The watcher: staged diffs, reorgs, block progress, CLI checkpoints.     *)
(***************************************************************************)
StatesOfKind(recs, kinds) == { i \in 1..Len(recs) : recs[i].kind \in kinds }

C14_ReorgRewinds ==
    reorg.pc = "done" =>
      /\ \A o \in WHashes :
           ( /\ Local(o)
             /\ Row(o).blockNumber > reorg.ancestor
             /\ o \notin ChainOf(reorg.incoming) ) => Row(o).isPruned
      /\ \A i \in StatesOfKind(wstates, { "diff", "diff_staged" }) :
           wstates[i].blockNumber <= reorg.ancestor
      /\ sync.latestIndexedBlockNumber <= reorg.ancestor
      /\ sync.latestCanonicalBlockNumber <= reorg.ancestor
      /\ \A o \in WHashes :
           NumberOf(o) <= reorg.ancestor => localBlocks[o] = reorg.blocks[o]
      /\ SelectSeq(wstates, LAMBDA r : r.blockNumber <= reorg.ancestor)
           = SelectSeq(reorg.states, LAMBDA r : r.blockNumber <= reorg.ancestor)

C14_Witness ==
    /\ reorg.pc = "done"
    /\ reorg.ancestor = 1
    /\ reorg.incoming = HashB(2)
    /\ Local(HashA(2)) /\ Row(HashA(2)).isPruned
    /\ Local(HashA(3)) /\ Row(HashA(3)).isPruned
    /\ \E i \in StatesOfKind(reorg.states, { "diff" }) :
          reorg.states[i].blockNumber = 2
    /\ \E i \in StatesOfKind(reorg.states, { "diff_staged" }) :
          reorg.states[i].blockNumber = 3
    /\ update.before.latestCanonicalBlockNumber = 2
    /\ sync.latestCanonicalBlockNumber = 1

\* C15 as stated: a block is complete exactly when all its events are
\* processed, and every event of a complete block has been applied once.
C15_CompleteIffProcessed ==
    \A h \in WHashes :
       Local(h) =>
         /\ Row(h).isComplete <=> Row(h).numProcessedEvents = Row(h).numEvents
         /\ Row(h).isComplete =>
              \A index \in 0..(Row(h).numEvents - 1) : applied[h][index] = 1

\* The records a create-checkpoint command has added.
Created == { j \in 1..Len(wstates') : j > Len(wstates) }

\* The contract's records of a kind at a block, before the command.
RecordsAtBlock(contract, blockHash, kinds) ==
    { i \in StatesOfKind(wstates, kinds) :
        /\ wstates[i].contractAddress = contract
        /\ wstates[i].blockHash = blockHash }

\* The contract's latest record of a non-pruned block at or below a
\* height, before the command: the highest block, then the latest
\* insertion.
LatestUpTo(contract, number) ==
    LET idx == { i \in StatesOfKind(wstates, AllKinds) :
                   /\ wstates[i].contractAddress = contract
                   /\ wstates[i].blockNumber <= number
                   /\ ~Row(wstates[i].blockHash).isPruned }
    IN { i \in idx : \A j \in idx :
           \/ wstates[j].blockNumber < wstates[i].blockNumber
           \/ wstates[j].blockNumber = wstates[i].blockNumber /\ j <= i }

\* A step of the create-checkpoint command.
CommandRun == cli' /= cli

OneCheckpointAtCanonical ==
    /\ Cardinality(Created) = 1
    /\ \A j \in Created :
         /\ wstates'[j].kind = "checkpoint"
         /\ wstates'[j].contractAddress = cli'.contract
         /\ wstates'[j].blockHash = sync.latestCanonicalBlockHash
         /\ wstates'[j].blockNumber = sync.latestCanonicalBlockNumber
    /\ SubSeq(wstates', 1, Len(wstates)) = wstates

UpstreamFailed == IsSome(bcall.resp) /\ Val(bcall.resp).kind = "error"

\* C23: an upstream error inside getBlocks that is not the future-epoch
\* server error (another code, another message, no nested error) is
\* rethrown as it is, and no result is returned.
C23_OtherErrorsRethrown ==
    ( /\ bcall.pc = "done"
      /\ bcall.method = "getBlocks"
      /\ UpstreamFailed
      /\ Val(bcall.resp) /= FutureEpochError ) =>
        /\ bcall.outcome = "thrown"
        /\ bcall.thrown = bcall.resp
        /\ bcall.nodes = << >>

\* C23's case: upstream failed with the future-epoch message under another
\* error code, and getBlocks has thrown.
C23_Witness ==
    /\ bcall.pc = "done"
    /\ bcall.method = "getBlocks"
    /\ bcall.resp = Some(RpcError("NETWORK_ERROR", Some(FUTURE_EPOCH_MSG)))
    /\ bcall.outcome = "thrown"

\* C24 as stated: getFullBlocks returns an empty result and raises nothing
\* when upstream answers with the future-epoch error or with a null block.
C24_GetFullBlocksMissingBlock ==
    ( /\ bcall.pc = "done"
      /\ bcall.method = "getFullBlocks"
      /\ IsSome(bcall.resp)
      /\ Val(bcall.resp) \in { FutureEpochError, RpcNull } ) =>
        /\ bcall.outcome = "returned"
        /\ bcall.nodes = << >>
        /\ bcall.thrown = None

\* C29: a call with no block hash and with no or a zero block number fails
\* with an assertion error and nothing is sent upstream; a call with both a
\* block hash and a block number asks upstream for the block of that hash
\* whatever the number (and fails with the assertion error, whatever the
\* number, when the hash is the empty string).
C29_HashOrNumberNeeded ==
    bcall.pc /= "idle" =>
      LET noHash == ~IsSome(bcall.blockHash)
          noNumber == ~IsSome(bcall.blockNumber) \/ Val(bcall.blockNumber) = 0
      IN /\ (noHash /\ noNumber) =>
              /\ bcall.pc = "done"
              /\ bcall.outcome = "assertion_error"
              /\ bcall.sent = None
              /\ bcall.resp = None
         /\ (IsSome(bcall.blockHash) /\ IsSome(bcall.blockNumber)) =>
              IF Val(bcall.blockHash) = ""
              THEN bcall.outcome = "assertion_error" /\ bcall.sent = None
              ELSE /\ bcall.outcome /= "assertion_error"
                   /\ bcall.sent = Some([ method |-> "eth_getBlockByHash",
                                          arg |-> Val(bcall.blockHash) ])

\* C29's case: the hash of block 1 and the number 2 were given, and the
\* call has returned block 1.
C29_Witness ==
    /\ bcall.pc = "done"
    /\ bcall.method = "getFullBlocks"
    /\ bcall.blockHash = Some(BlockHashAt(1))
    /\ bcall.blockNumber = Some(2)
    /\ BlockAnswered(1)
    /\ bcall.outcome = "returned"
    /\ bcall.nodes = << FullBlockNode(RawBlock(1)) >>

(***************************************************************************)
(* Concurrent calls of _getCachedOrFetch.                                  *)
(***************************************************************************)
\* What a fetch for the key can return, over the states of the upstream.
FetchResults(key) ==
    IF key.queryName = "getStorageAt"
    THEN { UpstreamStorage(Val(key.vars.contract), Val(key.vars.slot),
                           Val(key.vars.blockHash)) }
    ELSE { GetLogsFetch(key.vars, logs) : logs \in LogOptions }

\* A step of task t: a lookup returns the value stored for the call's key,
\* a fetch yields what upstream answers to the call's own fetch now, and
\* the store puts that result under the call's key and returns it.
OwnOrStored(t) ==
    /\ (tasks[t].pc = "get" /\ tasks'[t].pc = "done") =>
          /\ tasks[t].key \in DOMAIN cache
          /\ tasks'[t].result = Some(cache[tasks[t].key])
    /\ (tasks[t].pc = "fetch" /\ tasks'[t].pc \in { "put", "done" }) =>
          tasks'[t].result = Some(FetchValue(tasks[t]))
    /\ (tasks[t].pc = "put" /\ tasks'[t].pc = "done") =>
          /\ tasks'[t].result = tasks[t].result
          /\ cache' = CachePut(cache, tasks[t].key, Val(tasks[t].result))
    /\ tasks'[t].pc = "done" => IsSome(tasks'[t].result)

StoredIsFetched == \A k \in DOMAIN cache : cache[k] \in FetchResults(k)

NoFetchAfterDone ==
    \A t \in Calls : tasks[t].afterDone => tasks[t].nFetch = 0

\* C22 as stated, with or without a cache configured.
C22_AnyInterleaving ==
    /\ [](StoredIsFetched /\ NoFetchAfterDone)
    /\ [][\A t \in Tasks : OwnOrStored(t)]_vars

\* C22: with a cache configured, under every interleaving of the calls,
\* each call returns the value stored for its key or the result of its own
\* fetch, every entry of the cache is the result of a fetch for its key, and
\* a call started after a call for its key has returned fetches nothing.
C22_AnyInterleavingCached ==
    /\ [](StoredIsFetched /\ (cacheEnabled => NoFetchAfterDone))
    /\ [][\A t \in Tasks : OwnOrStored(t)]_vars

\* C22's case: two calls with one key both missed and both fetched, upstream
\* changed in between, and the cache holds the result of one of them.
C22_Witness ==
    /\ cacheEnabled
    /\ tasks["t1"].pc = "done" /\ tasks["t2"].pc = "done"
    /\ tasks["t1"].key = tasks["t2"].key
    /\ tasks["t1"].nFetch = 1 /\ tasks["t2"].nFetch = 1
    /\ tasks["t1"].result /= tasks["t2"].result
    /\ cache[tasks["t1"].key] = Val(tasks["t2"].result)

\* Two getLogs calls for one block number and one list of addresses under
\* different block hashes.
SameHeightOtherHash(t, u) ==
    /\ tasks[t].pc /= "idle" /\ tasks[u].pc /= "idle"
    /\ tasks[t].method = "getLogs" /\ tasks[u].method = "getLogs"
    /\ tasks[t].input.blockNumber = tasks[u].input.blockNumber
    /\ tasks[t].input.addresses = tasks[u].input.addresses
    /\ tasks[t].input.blockHash /= tasks[u].input.blockHash

\* C28: two getLogs calls for one block number and one list of addresses
\* under different block hashes have different keys and, when both fetch,
\* issue the same upstream query; and the fetch of a getLogs call yields,
\* and its store caches under the call's key, the logs upstream holds at
\* that height now, whatever the block hash of the call.
C28_KeyedByHashQueriedByNumber ==
    /\ [](\A t, u \in Tasks :
            SameHeightOtherHash(t, u) =>
              /\ tasks[t].key /= tasks[u].key
              /\ (tasks[t].nFetch = 1 /\ tasks[u].nFetch = 1) =>
                    tasks[t].upstream = tasks[u].upstream)
    /\ [][\A t \in Tasks :
            (tasks[t].pc = "fetch" /\ tasks[t].method = "getLogs"
               /\ tasks'[t].pc \in { "put", "done" }) =>
              /\ \A h \in LogHashes :
                   tasks'[t].result =
                     Some(GetLogsFetch(LogVars(h, tasks[t].input.blockNumber,
                                               tasks[t].input.addresses),
                                       chainLogs))
              /\ tasks'[t].upstream =
                   << [ rpc |-> "eth_getLogs",
                        arg |-> tasks[t].input.blockNumber ] >>]_vars
    /\ [](\A t \in Tasks :
            (tasks[t].pc = "done" /\ tasks[t].method = "getLogs"
               /\ ~tasks[t].hit /\ cacheEnabled) =>
              /\ tasks[t].key \in DOMAIN cache
              /\ tasks[t].key.vars.blockHash = Some(tasks[t].input.blockHash))

\* C28's case: under the hash of the block that upstream has replaced the
\* cache holds the logs of the old block, under the other hash those of the
\* new block, both fetched by the same query.
C28_Witness ==
    /\ cacheEnabled
    /\ SameHeightOtherHash("t1", "t2")
    /\ tasks["t1"].pc = "done" /\ tasks["t2"].pc = "done"
    /\ tasks["t1"].nFetch = 1 /\ tasks["t2"].nFetch = 1
    /\ tasks["t1"].upstream = tasks["t2"].upstream
    /\ tasks["t1"].key \in DOMAIN cache /\ tasks["t2"].key \in DOMAIN cache
    /\ cache[tasks["t1"].key] /= cache[tasks["t2"].key]
    /\ cache[tasks["t2"].key] = GetLogsFetch(tasks["t1"].key.vars, chainLogs)

(***************************************************************************)
(* fillState: the concurrent entity queries, the range, the state sink.    *)
(***************************************************************************)
\* The updates of a contract at a height in the order of its entity list,
\* and within an entity in the order of the list the entity table holds.
RECURSIVE InListOrder(_, _, _)
InListOrder(entities, height, i) ==
    IF i > Len(entities) THEN << >>
    ELSE LET list == Val(graphRows[height][entities[i]])
         IN [ k \in 1..Len(list) |->
                [ entity |-> entities[i], id |-> list[k] ] ]
            \o InListOrder(entities, height, i + 1)

UpdatesLogged(height, contract) ==
    { i \in LogCalls({ "updateSubgraphState" }) :
        run.log[i].height = height /\ run.log[i].what = contract }

\* The step in which dumpSubgraphState is invoked.
DumpInvoked == fill.pc = "fetch" /\ fill'.pc = "hooksStatus"

\* C21: when dumpSubgraphState is invoked for a block, the queries of every
\* contract have been answered and all its updateSubgraphState calls have
\* returned, and the in-memory state of each contract holds its updates in
\* the order of its entity list, in whatever order the queries were
\* answered.
C21_DumpAfterUpdates ==
    [][DumpInvoked =>
         \A i \in 1..Len(fill.entitiesMap) :
            LET e == fill.entitiesMap[i]
            IN /\ \A k \in 1..Len(e.entities) :
                     IsSome(graphRows[fill.blockNumber][e.entities[k]])
               /\ i \in fill.applied
               /\ LET expected == InListOrder(e.entities, fill.blockNumber, 1)
                  IN /\ Cardinality(UpdatesLogged(fill.blockNumber, e.address))
                          = Len(expected)
                     /\ IF expected = << >>
                        THEN \A j \in 1..Len(subgraph) :
                                subgraph[j].address /= e.address
                        ELSE \E j \in 1..Len(subgraph) :
                                /\ subgraph[j].address = e.address
                                /\ subgraph[j].data = expected]_vars

\* C21's case: the query for the second entity of a contract was answered
\* before the query for the first, both entities had updates, and the
\* state dumped for the contract holds those of the first entity first.
C21_Witness ==
    /\ fill.pc = "hooksStatus"
    /\ fill.outOfOrder
    /\ states /= << >>
    /\ LET r == states[Len(states)]
       IN /\ r.kind = "diff"
          /\ r.contractAddress = CA
          /\ r.blockHash = fill.blockHash
          /\ r.data = << [ entity |-> "E1", id |-> "a" ],
                         [ entity |-> "E1", id |-> "b" ],
                         [ entity |-> "E2", id |-> "a" ] >>

\* Nothing of the block and entity tables has been read beyond the heights
\* that hold a state record.
NothingRead(heights) ==
    /\ \A h \in heights :
         blockRows[h] = (IF \E i \in 1..Len(states) : states[i].blockNumber = h
                         THEN "one" ELSE "unknown")
    /\ \A h \in heights, e \in Entities : graphRows[h][e] = None

\* C25: with startBlock > endBlock fillState exits with code 1 and has read
\* and written nothing; with startBlock = endBlock every call it makes is
\* for that height, no other height is read, and a run that completes has
\* gone through the loop once.
C25_RangeChecked ==
    /\ argv.startBlock > argv.endBlock =>
         /\ fill.pc \in { "start", "exit" }
         /\ fill.pc = "exit" => fill.exitCode = Some(1)
         /\ run.log = << >>
         /\ states = run.statesAtStart
         /\ syncStatus = run.statusAtStart
         /\ NothingRead(Heights)
    /\ argv.startBlock = argv.endBlock =>
         /\ \A i \in 1..Len(run.log) : run.log[i].height = argv.startBlock
         /\ NothingRead(Heights \ { argv.startBlock })
         /\ fill.pc = "done" =>
              /\ Cardinality(LogCalls({ "createInit" })) = 1
              /\ Cardinality(LogCalls({ "dumpSubgraphState" })) = 1
              /\ Cardinality(LogCalls({ "processCheckpoint" })) = 1

\* C25's case: the command was run with startBlock above endBlock on a
\* database that holds states, and has exited.
C25_Witness ==
    /\ argv.startBlock > argv.endBlock
    /\ fill.pc = "exit"
    /\ fill.exitCode = Some(1)
    /\ states /= << >>

\* The CIDs pushed for a height, in the order of the pushes.
Pushed(height) ==
    LET calls == SelectSeq(run.log, LAMBDA e : /\ e.call = "pushToIPFS"
                                               /\ e.height = height)
    IN [ i \in 1..Len(calls) |-> calls[i].what ]

\* The CIDs of the state records stored for a block hash.
StoredCids(blockHash) ==
    LET recs == SelectSeq(states, LAMBDA r : r.blockHash = blockHash)
    IN [ i \in 1..Len(recs) |-> recs[i].cid ]

\* C26: without a state sink nothing is pushed and the IPFS status is left
\* alone; with one, the IPFS status is updated for a block when every state
\* record stored for the block hash has been pushed, and is then the block
\* number.
C26_PushThenStatus ==
    /\ [](~config.isIPFSConfigured =>
            /\ LogCalls({ "pushToIPFS", "updateIPLDStatusIPFSBlock" }) = {}
            /\ fill.pc \notin { "ipfsGet", "push", "ipfsStatus" }
            /\ syncStatus.latestIPFSBlockNumber
                 = run.statusAtStart.latestIPFSBlockNumber)
    /\ [][syncStatus'.latestIPFSBlockNumber /= syncStatus.latestIPFSBlockNumber =>
            /\ config.isIPFSConfigured
            /\ Pushed(fill.blockNumber) = StoredCids(fill.blockHash)
            /\ syncStatus'.latestIPFSBlockNumber = fill.blockNumber]_vars
    /\ [](\A i \in LogCalls({ "updateIPLDStatusIPFSBlock" }) :
            /\ config.isIPFSConfigured
            /\ \A j \in LogCalls({ "pushToIPFS" }) :
                 run.log[j].height = run.log[i].height => j < i)

\* C26's case: a sink is configured, the init and the diff of a block were
\* pushed, and the IPFS status was then set to the block's number.
C26_Witness ==
    /\ config.isIPFSConfigured
    /\ Len(run.log) >= 3
    /\ run.log[Len(run.log)].call = "updateIPLDStatusIPFSBlock"
    /\ run.log[Len(run.log) - 1].call = "pushToIPFS"
    /\ run.log[Len(run.log) - 2].call = "pushToIPFS"
    /\ syncStatus.latestIPFSBlockNumber = run.log[Len(run.log)].height
    /\ Len(Pushed(syncStatus.latestIPFSBlockNumber)) >= 2

(***************************************************************************)
(* fillState is not atomic over the range.                                 *)
(***************************************************************************)
\* The frame of a run that stopped at the check of the blocks at a height
\* above startBlock.
AbortedAbove(f) ==
    /\ f.pc = "exit"
    /\ f.blockNumber > argv.startBlock
    /\ f.blockNumber <= argv.endBlock

\* What a run that stopped at a height leaves: the records the database
\* held before it and, after them, those it wrote; every call of the
\* heights below made, and the status rows advanced to the height below.
LeftBehind(f) ==
    /\ SubSeq(states, 1, Len(run.statesAtStart)) = run.statesAtStart
    /\ \A i \in 1..Len(states) :
         i > Len(run.statesAtStart) =>
           /\ states[i].blockNumber >= argv.startBlock
           /\ states[i].blockNumber < f.blockNumber
    /\ \A h \in argv.startBlock..(f.blockNumber - 1) :
         \A name \in { "createInit", "dumpSubgraphState",
                       "updateIPLDStatusHooksBlock", "processCheckpoint",
                       "updateIPLDStatusCheckpointBlock" } :
            \E i \in LogCalls({ name }) : run.log[i].height = h
    /\ syncStatus.latestIndexedBlockNumber >= f.blockNumber - 1
    /\ syncStatus.latestCheckpointBlockNumber >= f.blockNumber - 1
    /\ blockRows[f.blockNumber] \in { "none", "two" }

\* The run has gone no further than the check of the existing states, and
\* has written nothing.
StoppedAtExisting ==
    /\ fill.pc \in { "start", "existing", "exit" }
    /\ fill.pc = "exit" => fill.exitCode = Some(1)
    /\ fill.blockNumber = 0
    /\ run.log = << >>
    /\ states = run.statesAtStart
    /\ syncStatus = run.statusAtStart

WrittenBelow(f) ==
    \E i \in 1..Len(run.statesAtStart) :
       /\ run.statesAtStart[i].blockNumber >= argv.startBlock
       /\ run.statesAtStart[i].blockNumber < f.blockNumber

\* C27 as stated: what the run wrote for the heights below h remains, and
\* the run after it stops at the check of the existing states.
C27_SecondRunAborts ==
    /\ AbortedAbove(fill) => LeftBehind(fill)
    /\ (run.n > 1 /\ AbortedAbove(run.previous)) => StoppedAtExisting

\* C27: what a run that stops at a height h above startBlock wrote for the
\* heights below h remains; when it wrote a state record for one of those
\* heights, the run after it stops at the check of the existing states
\* with exit code 1 and writes nothing.
C27_SecondRunAbortsOnRecords ==
    /\ AbortedAbove(fill) => LeftBehind(fill)
    /\ (run.n > 1 /\ AbortedAbove(run.previous)
          /\ WrittenBelow(run.previous)) => StoppedAtExisting

\* C27's case: the first run wrote the inits of height 1 and stopped at
\* height 2; the second run has exited at the check of the existing states.
C27_Witness ==
    /\ run.n = 2
    /\ AbortedAbove(run.previous)
    /\ WrittenBelow(run.previous)
    /\ run.previous.blockNumber = 2
    /\ Len(states) >= 2
    /\ syncStatus.latestCheckpointBlockNumber = 1
    /\ fill.pc = "exit"
    /\ fill.exitCode = Some(1)

(***************************************************************************)
(* getIPLDsByBlock: the states of a block, in order.                       *)
(***************************************************************************)
\* The contract's records of one kind in the block of the given number, as
\* the results of a call hold them.
RowsIn(contract, number, kind) ==
    LET rows == SelectSeq(stateRows,
                          LAMBDA r : /\ r.contractAddress = contract
                                     /\ r.block.number = number
                                     /\ r.kind = kind)
    IN [ i \in 1..Len(rows) |-> Some(rows[i]) ]

\* The record of the contract written last among those of the blocks up to
\* the given one (records are written in block order), if there is any.
LatestAt(contract, number) ==
    LET upTo == SelectSeq(stateRows,
                          LAMBDA r : /\ r.contractAddress = contract
                                     /\ r.block.number <= number)
    IN IF upTo = << >> THEN None ELSE Some(upTo[Len(upTo)])

\* C30: when getIPLDsByBlock has returned, the result for a contract whose
\* latest state at the block asked for is a checkpoint of that block is the
\* contract's init of the block if there is one, then its diff of the block
\* if there is one, then the checkpoint; for any other contract it is the
\* one latest state, or the one absent value when the contract has none.  In
\* no result does a checkpoint come before a diff of its block.
C30_BlockStatesInOrder ==
    \A c \in Compared :
      ipld.tasks[c].pc = "done" =>
        LET res == ipld.tasks[c].stateIPLDs
            latest == LatestAt(c, ipld.number)
        IN /\ IF /\ IsSome(latest)
                 /\ Val(latest).kind = "checkpoint"
                 /\ Val(latest).block.number = ipld.number
              THEN res = RowsIn(c, ipld.number, "init")
                           \o RowsIn(c, ipld.number, "diff")
                           \o << latest >>
              ELSE res = << latest >>
           /\ \A i, j \in 1..Len(res) :
                ( /\ IsSome(res[i]) /\ IsSome(res[j])
                  /\ Val(res[i]).kind = "diff"
                  /\ Val(res[j]).kind = "checkpoint"
                  /\ Val(res[i]).block = Val(res[j]).block ) => i < j

\* C30's case: the call has returned the init, the diff and the checkpoint
\* of the block for the first contract, and the one absent value for the
\* second, which has no state.
C30_Witness ==
    /\ \A c \in Compared : ipld.tasks[c].pc = "done"
    /\ Len(ipld.tasks[CA].stateIPLDs) = 3
    /\ Val(ipld.tasks[CA].stateIPLDs[1]).kind = "init"
    /\ Val(ipld.tasks[CA].stateIPLDs[2]).kind = "diff"
    /\ Val(ipld.tasks[CA].stateIPLDs[3]).kind = "checkpoint"
    /\ ipld.tasks[CB].stateIPLDs = << None >>

(***************************************************************************)
(* checkIPLDMetaData: repeated records and the tracked CIDs.               *)
(***************************************************************************)
\* The call made in this step was given no record, or a record whose cid is
\* one of the two CIDs tracked for its contract when the call was made.
RepeatedOrAbsent ==
    \/ metaCall'.fed = None
    \/ Val(metaCall'.fed).cid \in
         { metaCall'.before.diff, metaCall'.before.checkpoint }

\* C31: a call of checkIPLDMetaData with an absent record, or with a record
\* whose cid is the tracked diff CID or the tracked checkpoint CID of its
\* contract, returns undefined (no diff) and leaves the whole map of
\* tracked CIDs as it was.
C31_RepeatedRecordNoOp ==
    [][ RepeatedOrAbsent =>
          /\ contractLatestStateCIDMap' = contractLatestStateCIDMap
          /\ metaCall'.result = ReturnedUndefined ]_vars

\* C31's case: a checkpoint that is the tracked checkpoint of its contract
\* was fed again, after a diff of the contract had been tracked as well.
C31_Witness ==
    /\ Fed
    /\ FedRecord.kind = "checkpoint"
    /\ FedRecord.cid = metaCall.before.checkpoint
    /\ metaCall.before.diff /= ""
    /\ contractLatestStateCIDMap[FedRecord.contractAddress] = metaCall.before
    /\ metaCall.result = ReturnedUndefined

\* The CIDs tracked for the record's contract are, after a call that did not
\* skip the record, those the record gives: its cid next to the diff CID
\* tracked before for a checkpoint, and its cid alone for any other record.
TrackedAfterFed ==
    (Fed /\ FreshCid) =>
       contractLatestStateCIDMap[FedRecord.contractAddress] =
         IF FedRecord.kind = "checkpoint"
         THEN [ diff |-> metaCall.before.diff, checkpoint |-> FedRecord.cid ]
         ELSE [ diff |-> FedRecord.cid, checkpoint |-> "" ]

\* The record of the contract fed before this one was reported for its
\* parent.
PrevReported == Fed /\ FreshCid /\ metaCall.chainBefore.reported

\* The cid of the record of the contract fed before this one.
PrevCid ==
    IF metaCall.chainBefore.lastKind = "checkpoint"
    THEN PrevCheckpoint.cid ELSE PrevDiff.cid

\* A record reported for its parent, fed again, is not reported again.
ReportedOnce ==
    (Fed /\ ~FreshCid /\ chain[FedRecord.contractAddress].reported) =>
       metaCall.result = ReturnedUndefined

\* C32, as stated: the tracked CIDs are updated whatever the comparison
\* yields; a record reported for its parent is not reported when fed again,
\* and the record after it is accepted if and only if its parent is the
\* reported record.
C32_CheckedAgainstReported ==
    /\ TrackedAfterFed
    /\ ReportedOnce
    /\ PrevReported => (~ParentReported <=> FedParent = PrevCid)

\* C32, amended: the tracked CIDs are updated whatever the comparison
\* yields; a record reported for its parent is not reported when fed again,
\* and the record after it is accepted if and only if its parent is the
\* reported record or, when the reported record is a checkpoint, the diff
\* CID tracked before it, which the checkpoint left in place.
C32_CheckedAgainstTracked ==
    /\ TrackedAfterFed
    /\ ReportedOnce
    /\ PrevReported =>
         (~ParentReported <=>
            FedParent \in
              { PrevCid } \cup
              ( IF metaCall.chainBefore.lastKind = "checkpoint"
                THEN { PrevDiff.cid } ELSE {} ))

\* C32's case: a diff was reported for its parent, the CIDs tracked were set
\* to it all the same, and the record after it, whose parent it is, has
\* been accepted.
C32_Witness ==
    /\ PrevReported
    /\ metaCall.chainBefore.lastKind = "diff"
    /\ metaCall.before = [ diff |-> PrevCid, checkpoint |-> "" ]
    /\ FedParent = PrevCid
    /\ metaCall.result = Returned({})

(***************************************************************************)
(* fillState: data sources of one contract address.                        *)
(***************************************************************************)
\* The last data source of the subgraph with the given contract address.
LastSourceOf(address) ==
    LET ds == config.dataSources
        last == CHOOSE i \in 1..Len(ds) :
                  /\ ds[i].address = address
                  /\ \A j \in (i + 1)..Len(ds) : ds[j].address /= address
    IN ds[last]

\* The entities listed only in a data source that a later data source of
\* the same address follows.
ListedOnlyEarlier ==
    LET ds == config.dataSources
    IN { e \in Entities :
           /\ \E i \in 1..Len(ds) : e \in Range(ds[i].entities)
           /\ \A i \in 1..Len(ds) :
                e \in Range(ds[i].entities) => ds[i] /= LastSourceOf(ds[i].address) }

\* C33: the entity list fillState uses for a contract is the list of the
\* last data source with the contract's address; an entity listed only in
\* an earlier data source of the address is queried at no block, is in no
\* update of the in-memory state and is in the data of no state record.
C33_LastDataSourceWins ==
    /\ \A j \in 1..Len(fill.entitiesMap) :
         fill.entitiesMap[j].entities =
           LastSourceOf(fill.entitiesMap[j].address).entities
    /\ \A e \in ListedOnlyEarlier :
         /\ \A h \in Heights : graphRows[h][e] = None
         /\ \A i \in 1..Len(subgraph) : \A k \in 1..Len(subgraph[i].data) :
              subgraph[i].data[k].entity /= e
         /\ \A i \in 1..Len(states) : \A k \in 1..Len(states[i].data) :
              states[i].data[k].entity /= e

\* C33's case: two data sources name the first contract, the run has gone
\* through a range of more than one block, and the last block of the range
\* has a diff of the contract, made of the entity of the second data source.
C33_Witness ==
    /\ Len(config.dataSources) = 2
    /\ config.dataSources[1].address = config.dataSources[2].address
    /\ ListedOnlyEarlier = { "E1" }
    /\ fill.pc = "done"
    /\ argv.startBlock < argv.endBlock
    /\ \E i \in 1..Len(states) :
         /\ states[i].kind = "diff"
         /\ states[i].contractAddress = CA
         /\ states[i].blockNumber = argv.endBlock
         /\ states[i].data = << PrepareEntityState("a", "E2") >>
         /\ i > Len(run.statesAtStart)

(***************************************************************************)
(* The codegen collectors: addQuery.                                       *)
(***************************************************************************)
StoredNames(collector) ==
    { codegen.queries[collector][i].name :
        i \in 1..Len(codegen.queries[collector]) }

NoTwoSameName ==
    \A c \in Collectors :
      \A i, j \in 1..Len(codegen.queries[c]) :
        codegen.queries[c][i].name = codegen.queries[c][j].name => i = j

\* The name of the call made in this step was stored by its collector when
\* the call was made.
AlreadyAdded ==
    /\ queryCall'.collector \in Collectors
    /\ queryCall'.name \in StoredNames(queryCall'.collector)

\* The queries stored, with the fields of their params, are after the step
\* what they were before it.
StoredKept ==
    \A c \in Collectors : \A i \in 1..Len(codegen.queries[c]) :
      /\ i <= Len(codegen'.queries[c])
      /\ codegen'.queries[c][i] = codegen.queries[c][i]
      /\ \A k \in 1..Len(codegen.queries[c][i].params) :
           codegen'.heap[codegen.queries[c][i].params[k]] =
             codegen.heap[codegen.queries[c][i].params[k]]

\* The Param objects the caller made have after the step the fields they
\* had before it, and during a call of addQuery the caller's array holds
\* the same objects.
CallerParamsKept ==
    /\ \A r \in codegen.owned : codegen'.heap[r] = codegen.heap[r]
    /\ codegen'.visits = codegen.visits =>
         codegen'.visited = codegen.visited

\* C34: in every state no collector holds two queries of one name; a call
\* of addQuery with a name its collector has stored leaves the lists of
\* queries as they were, a stored query is never changed afterwards, and no
\* call changes the params array of the caller or an object in it.
C34_UniqueNames ==
    /\ []NoTwoSameName
    /\ [][ /\ AlreadyAdded => codegen'.queries = codegen.queries
           /\ StoredKept
           /\ CallerParamsKept ]_vars

\* C34's case: both collectors stored a query on the first visit; the name
\* was visited again with other params and addQuery was called with it; the
\* stored params have their TypeScript types, and the caller's params
\* still have their Solidity types.
C34_Witness ==
    /\ codegen.visits = 2
    /\ queryCall.outcome = "already added"
    /\ \A c \in Collectors :
         /\ Len(codegen.queries[c]) = 1
         /\ codegen.queries[c][1].name = codegen.visited.name
         /\ Len(codegen.queries[c][1].params) = 2
         /\ [ k \in 1..2 |-> codegen.heap[codegen.queries[c][1].params[k]].type ]
              = << "string", "bigint" >>
    /\ codegen.visited.params /= << >>
    /\ \A k \in 1..Len(codegen.visited.params) :
         codegen.heap[codegen.visited.params[k]].type = "bool"
    /\ { codegen.heap[r].type : r \in codegen.owned } =
         { "address", "uint256", "bool" }

=============================================================================
